---- MODULE Spec2Model ----
(***************************************************************************)
(* A model of the NBA shot predictor frontend:                             *)
(*   - the coordinate mapper (courtCoordinates.ts), pure functions;        *)
(*   - the click flow of ShotPredictor.tsx (state, click handler,          *)
(*     prediction requests in flight);                                     *)
(*   - the render pass of the canvas heatmap (Heatmap.tsx).                *)
(*                                                                         *)
(* Numbers.  The code computes in IEEE doubles.  The model computes in     *)
(* exact rationals, a record [n, d] in lowest terms with d > 0, and the    *)
(* result of Math.sqrt is kept as the radicand, [sqrtOf |-> q], so that a  *)
(* comparison d <= t is the exact comparison q <= t*t.  The values that   *)
(* are not finite have d = 0: NaN is [0, 0], Infinity [1, 0] and           *)
(* -Infinity [-1, 0]; they arise from a division by zero only, and the     *)
(* model has one zero, without a sign.                                     *)
(***************************************************************************)
EXTENDS Integers, Sequences, FiniteSets, TLC

VARIABLES
  \* coordinate mapper: the input drawn, the functions applied, their results
  mIn, mOp, mOut,
  \* App.tsx: component state
  players, selectedPlayer, appLoading, appError, sessionStats,
  \* ShotPredictor.tsx: component state
  prediction, loading, error, shotLocation,
  \* the prediction requests: the number sent so far (a request is numbered
  \* by its click); the ones in flight, each with the body sent and the
  \* values its handler closed over; the ones resolved, in order of resolution
  clicks, pending, resolved,
  \* ShotPredictor.tsx: the memoized demo point cloud, null while
  \* ShotPredictor is not rendered
  playerHeatmap,
  \* Heatmap.tsx: the props of the last render, the browser environment (the
  \* refs, the contexts, the container box, the pixel ratio), the visible
  \* canvas, and the last render pass (its inputs, its calls, whether it threw)
  hProps, hEnv, hCanvas, hLast

mapperVars == <<mIn, mOp, mOut>>
appVars == <<players, selectedPlayer, appLoading, appError, sessionStats>>
predictorVars == <<prediction, loading, error, shotLocation, playerHeatmap>>
requestVars == <<clicks, pending, resolved>>
heatVars == <<hProps, hEnv, hCanvas, hLast>>
vars == <<mapperVars, appVars, predictorVars, requestVars, heatVars>>

---------------------------------------------------------------------------
(* Exact arithmetic standing for the code's number arithmetic.             *)

RECURSIVE GCD(_, _)
GCD(a, b) == IF b = 0 THEN a ELSE GCD(b, a % b)

Abs(i) == IF i < 0 THEN -i ELSE i

\* the rational n/d in lowest terms, d # 0
Frac(n, d) ==
  LET s == IF d < 0 THEN -1 ELSE 1
      g == GCD(Abs(n), Abs(d))
  IN  [n |-> (s * n) \div g, d |-> (s * d) \div g]

Num(i) == [n |-> i, d |-> 1]

IsInteger(a) == a.d = 1

NaN == [n |-> 0, d |-> 0]
Infinity == [n |-> 1, d |-> 0]
NegInfinity == [n |-> -1, d |-> 0]

\* Number.isFinite
IsFinite(a) == a.d # 0

Sign(i) == IF i < 0 THEN -1 ELSE IF i > 0 THEN 1 ELSE 0

LCM(a, b) == (a \div GCD(a, b)) * b

Add(a, b) ==
  IF a.d # 0 /\ b.d # 0
    THEN LET l == LCM(a.d, b.d)
         IN  Frac(a.n * (l \div a.d) + b.n * (l \div b.d), l)
  ELSE IF a = NaN \/ b = NaN \/ (a.d = 0 /\ b.d = 0 /\ a # b) THEN NaN
  ELSE IF a.d = 0 THEN a
  ELSE b

Neg(a) == [n |-> -a.n, d |-> a.d]

Sub(a, b) == Add(a, Neg(b))

Mul(a, b) ==
  IF a.d # 0 /\ b.d # 0
    THEN LET p == Frac(a.n, b.d)
             q == Frac(b.n, a.d)
         IN  [n |-> p.n * q.n, d |-> p.d * q.d]
  \* Infinity * 0 and NaN * x are NaN
  ELSE [n |-> Sign(a.n) * Sign(b.n), d |-> 0]

\* a / b: x / 0 is Infinity or -Infinity by the sign of x, 0 / 0 is NaN
Div(a, b) ==
  IF a.d # 0 /\ b.d # 0 /\ b.n # 0 THEN Mul(a, Frac(b.d, b.n))
  ELSE IF a = NaN \/ b = NaN \/ (a.d = 0 /\ b.d = 0) THEN NaN
  ELSE IF b.d = 0 THEN Num(0)
  ELSE IF b.n = 0 THEN [n |-> Sign(a.n), d |-> 0]
  ELSE [n |-> Sign(a.n) * Sign(b.n), d |-> 0]

\* a comparison with NaN is false
Leq(a, b) ==
  IF a.d # 0 /\ b.d # 0 THEN a.n * b.d <= b.n * a.d
  ELSE a # NaN /\ b # NaN /\ (a = b \/ a = NegInfinity \/ b = Infinity)

Lt(a, b) ==
  IF a.d # 0 /\ b.d # 0 THEN a.n * b.d < b.n * a.d
  ELSE a # NaN /\ b # NaN /\ a # b /\ (a = NegInfinity \/ b = Infinity)

Half == Frac(1, 2)

\* Math.round: the nearest integer, a tie going to the larger one
\* a mutant of MathRound: the fraction is dropped
MathRoundDown(a) == IF a.d = 0 THEN a ELSE Num(a.n \div a.d)

MathRound(a) == IF a.d = 0 THEN a ELSE Num((2 * a.n + a.d) \div (2 * a.d))

\* Math.abs
MathAbs(a) == [n |-> Abs(a.n), d |-> a.d]

\* Math.max and Math.min on numbers
MathMax(a, b) == IF a = NaN \/ b = NaN THEN NaN ELSE IF Leq(a, b) THEN b ELSE a

MathMin(a, b) == IF a = NaN \/ b = NaN THEN NaN ELSE IF Leq(a, b) THEN a ELSE b

\* Math.sqrt of a non-negative number, kept as its radicand
MathSqrt(a) == [sqrtOf |-> a]

\* s <= t and s > t for s a result of Math.sqrt and t >= 0
SqrtLeq(s, t) == Leq(s.sqrtOf, Mul(t, t))

SqrtGt(s, t) == ~SqrtLeq(s, t)

SqrtLt(s, t) == Lt(s.sqrtOf, Mul(t, t))

---------------------------------------------------------------------------
(* courtCoordinates.ts                                                     *)

Pos(x, y) == [x |-> x, y |-> y]

CourtDimensions(w, h, l, cw) ==
  [width |-> Num(w), height |-> Num(h),
   courtLengthFeet |-> Num(l), courtWidthFeet |-> Num(cw)]

DEFAULT_COURT_DIMENSIONS == CourtDimensions(800, 400, 94, 50)

\* a mutant of screenToCourtCoordinates: the axes are not swapped
screenToCourtNoSwap(screenPos, dimensions) ==
  LET normalizedX == Div(screenPos.x, dimensions.width)
      normalizedY == Div(screenPos.y, dimensions.height)
      nbaX == Mul(Sub(normalizedX, Half), Num(500))
      nbaY == Add(Num(50), Mul(normalizedY, Num(350)))
  IN  Pos(MathRound(nbaX), MathRound(nbaY))

\* a mutant of screenToCourtCoordinates: the row is not centred
screenToCourtUncentred(screenPos, dimensions) ==
  LET normalizedX == Div(screenPos.x, dimensions.width)
      normalizedY == Div(screenPos.y, dimensions.height)
      nbaX == Mul(normalizedY, Num(500))
      nbaY == Add(Num(50), Mul(normalizedX, Num(350)))
  IN  Pos(MathRound(nbaX), MathRound(nbaY))

screenToCourtCoordinates(screenPos, dimensions) ==
  LET normalizedX == Div(screenPos.x, dimensions.width)
      normalizedY == Div(screenPos.y, dimensions.height)
      nbaX == Mul(Sub(normalizedY, Half), Num(500))
      nbaY == Add(Num(50), Mul(normalizedX, Num(350)))
  IN  Pos(MathRound(nbaX), MathRound(nbaY))

\* a mutant of courtToScreenCoordinates: both axes scaled by the length scale
courtToScreenOneScale(courtPos, dimensions) ==
  LET scaleX == Div(dimensions.width, dimensions.courtLengthFeet)
  IN  Pos(Mul(courtPos.x, scaleX), Mul(courtPos.y, scaleX))

\* a mutant of courtToScreenCoordinates: the inverse of screenToCourtCoordinates
\* up to rounding (axes swapped back, analytics offsets removed)
courtToScreenInverse(courtPos, dimensions) ==
  Pos(Mul(Div(Sub(courtPos.y, Num(50)), Num(350)), dimensions.width),
      Mul(Add(Div(courtPos.x, Num(500)), Half), dimensions.height))

courtToScreenCoordinates(courtPos, dimensions) ==
  LET scaleX == Div(dimensions.width, dimensions.courtLengthFeet)
      scaleY == Div(dimensions.height, dimensions.courtWidthFeet)
  IN  Pos(Mul(courtPos.x, scaleX), Mul(courtPos.y, scaleY))

\* a mutant of isWithinCourtBounds: the far edges are excluded
isWithinCourtBoundsOpen(courtPos, dimensions) ==
  /\ Leq(Num(0), courtPos.x)
  /\ Lt(courtPos.x, dimensions.courtLengthFeet)
  /\ Leq(Num(0), courtPos.y)
  /\ Lt(courtPos.y, dimensions.courtWidthFeet)

isWithinCourtBounds(courtPos, dimensions) ==
  /\ Leq(Num(0), courtPos.x)
  /\ Leq(courtPos.x, dimensions.courtLengthFeet)
  /\ Leq(Num(0), courtPos.y)
  /\ Leq(courtPos.y, dimensions.courtWidthFeet)

\* the values a caller can pass for basketSide; "undefined" is the omitted
\* argument, which takes the default 'right'
BasketSides == {"left", "right", "undefined"}

\* a mutant of distanceFromBasket: the default side is 'left'
distanceFromBasketDefaultLeft(courtPos, basketSide) ==
  LET side == IF basketSide = "undefined" THEN "left" ELSE basketSide
      basketX == IF side = "left" THEN Num(10) ELSE Num(84)
      basketY == Num(25)
      dx == Sub(courtPos.x, basketX)
      dy == Sub(courtPos.y, basketY)
  IN  MathSqrt(Add(Mul(dx, dx), Mul(dy, dy)))

distanceFromBasket(courtPos, basketSide) ==
  LET side == IF basketSide = "undefined" THEN "right" ELSE basketSide
      basketX == IF side = "left" THEN Num(10) ELSE Num(84)
      basketY == Num(25)
      dx == Sub(courtPos.x, basketX)
      dy == Sub(courtPos.y, basketY)
  IN  MathSqrt(Add(Mul(dx, dx), Mul(dy, dy)))

\* a mutant of getShotZone: the thresholds are exclusive (< for <=)
getShotZoneExclusive(courtPos) ==
  LET distanceToBasket == distanceFromBasket(courtPos, "right")
  IN  IF SqrtLt(distanceToBasket, Num(8)) THEN "Restricted Area"
      ELSE IF SqrtLt(distanceToBasket, Num(16)) THEN "Paint"
      ELSE IF SqrtLt(distanceToBasket, Frac(2375, 100)) THEN "Mid-range"
      ELSE "Three-point"

getShotZone(courtPos) ==
  LET distanceToBasket == distanceFromBasket(courtPos, "right")
  IN  IF SqrtLeq(distanceToBasket, Num(8)) THEN "Restricted Area"
      ELSE IF SqrtLeq(distanceToBasket, Num(16)) THEN "Paint"
      ELSE IF SqrtLeq(distanceToBasket, Frac(2375, 100)) THEN "Mid-range"
      ELSE "Three-point"

---------------------------------------------------------------------------
(* App.tsx and ShotPredictor.tsx                                           *)

\* null for a string-valued and for an object-valued state
NullString == "null"
Null == [null |-> TRUE]

\* the surface and court convention of the click handler
CLICK_WIDTH == 500
CLICK_HEIGHT == 470
CLICK_LENGTH_FEET == 47
CLICK_WIDTH_FEET == 50

ClickDimensions ==
  CourtDimensions(CLICK_WIDTH, CLICK_HEIGHT, CLICK_LENGTH_FEET, CLICK_WIDTH_FEET)

\* the offline player list of App.tsx
FallbackPlayers ==
  <<"LeBron James", "Stephen Curry", "Kevin Durant", "Jayson Tatum",
    "Luka Doncic", "Giannis Antetokounmpo", "Ja Morant", "Jimmy Butler">>

\* the player lists the players endpoint answers with
ServerPlayerLists == {<<>>, <<"Stephen Curry", "Nikola Jokic">>}

InitialSessionStats ==
  [totalShots |-> 0, madeShots |-> 0, bestStreak |-> 0, currentStreak |-> 0,
   favoritePlayer |-> "", favoriteZone |-> ""]

Max(a, b) == IF a >= b THEN a ELSE b

Min(a, b) == IF a <= b THEN a ELSE b

\* a mutant of updateSessionStats: the best streak is compared with the
\* streak before this shot
updateSessionStatsStaleBest(prev, shotMade, player, zone) ==
  [totalShots |-> prev.totalShots + 1,
   madeShots |-> prev.madeShots + (IF shotMade THEN 1 ELSE 0),
   currentStreak |-> IF shotMade THEN prev.currentStreak + 1 ELSE 0,
   bestStreak |-> IF shotMade THEN Max(prev.bestStreak, prev.currentStreak)
                              ELSE prev.bestStreak,
   favoritePlayer |-> player,
   favoriteZone |-> zone]

updateSessionStats(prev, shotMade, player, zone) ==
  [totalShots |-> prev.totalShots + 1,
   madeShots |-> prev.madeShots + (IF shotMade THEN 1 ELSE 0),
   currentStreak |-> IF shotMade THEN prev.currentStreak + 1 ELSE 0,
   bestStreak |-> IF shotMade THEN Max(prev.bestStreak, prev.currentStreak + 1)
                              ELSE prev.bestStreak,
   favoritePlayer |-> player,
   favoriteZone |-> zone]

\* whether App passes onPrediction to ShotPredictor: it renders
\* <ShotPredictor selectedPlayer={selectedPlayer} /> and nothing else
onPredictionPassed == FALSE

\* the shot zone of the click handler, from the analytics position and the
\* distance
\* a mutant of ClickShotZone: the restricted area ends before distance 4
ClickShotZoneExclusive(courtPos, distance) ==
  IF SqrtLt(distance, Num(4)) THEN "Restricted Area"
  ELSE IF SqrtLeq(distance, Num(8)) THEN "In The Paint (Non-RA)"
  ELSE IF SqrtGt(distance, Frac(2375, 100))
    THEN IF Lt(Num(200), MathAbs(courtPos.x)) /\ Lt(courtPos.y, Num(150))
           THEN IF Lt(Num(0), courtPos.x) THEN "Right Corner 3" ELSE "Left Corner 3"
         ELSE "Above the Break 3"
  ELSE "Mid-Range"

ClickShotZone(courtPos, distance) ==
  IF SqrtLeq(distance, Num(4)) THEN "Restricted Area"
  ELSE IF SqrtLeq(distance, Num(8)) THEN "In The Paint (Non-RA)"
  ELSE IF SqrtGt(distance, Frac(2375, 100))
    THEN IF Lt(Num(200), MathAbs(courtPos.x)) /\ Lt(courtPos.y, Num(150))
           THEN IF Lt(Num(0), courtPos.x) THEN "Right Corner 3" ELSE "Left Corner 3"
         ELSE "Above the Break 3"
  ELSE "Mid-Range"

\* the distance of the click handler: the basket is at (0, 80) in tenths of feet
ClickDistance(courtPos) ==
  LET basketX == Num(0)
      basketY == Num(80)
      px == Div(Sub(courtPos.x, basketX), Num(10))
      py == Div(Sub(courtPos.y, basketY), Num(10))
  IN  MathSqrt(Add(Mul(px, px), Mul(py, py)))

\* a mutant of ShotData: the three-point line is taken at 23 feet for the
\* shot type
ShotDataShortLine(clickPos, player) ==
  LET courtPos == screenToCourtCoordinates(clickPos, ClickDimensions)
      distance == ClickDistance(courtPos)
      shotType == IF SqrtGt(distance, Num(23)) THEN 3 ELSE 2
  IN  [LOC_X |-> courtPos.x,
       LOC_Y |-> courtPos.y,
       SHOT_DISTANCE |-> distance,
       SHOT_TYPE |-> IF shotType = 3 THEN "3PT Field Goal" ELSE "2PT Field Goal",
       SHOT_ZONE_BASIC |-> ClickShotZone(courtPos, distance),
       PLAYER_NAME |-> player]

\* the request body handleCourtClick builds for a click at (clickX, clickY)
ShotData(clickPos, player) ==
  LET courtPos == screenToCourtCoordinates(clickPos, ClickDimensions)
      distance == ClickDistance(courtPos)
      shotType == IF SqrtGt(distance, Frac(2375, 100)) THEN 3 ELSE 2
  IN  [LOC_X |-> courtPos.x,
       LOC_Y |-> courtPos.y,
       SHOT_DISTANCE |-> distance,
       SHOT_TYPE |-> IF shotType = 3 THEN "3PT Field Goal" ELSE "2PT Field Goal",
       SHOT_ZONE_BASIC |-> ClickShotZone(courtPos, distance),
       PLAYER_NAME |-> player]

\* Math.random(): a number in [0, 1).  A stream is the sequence of its
\* results during one generation of the point cloud: the results a stream
\* takes in turn, where it starts in them and how it steps through them
RandomValues == <<Num(0), Frac(999, 1000), Half, Frac(1, 4), Frac(3, 4)>>

RandomStreams == [seed : 0..4, step : 1..4]

MathRandom(stream, k) ==
  RandomValues[((stream.seed + stream.step * k) % Len(RandomValues)) + 1]

HeatmapPoint(x, y, weight) == [x |-> x, y |-> y, weight |-> weight]

\* the demo heatmap of ShotPredictor: the clusters of each player profile
HOOP_X == 10
CENTER_Y == 25

Cluster(centerX, centerY, spreadX, spreadY, count, baseProb, variance) ==
  [centerX |-> Num(centerX), centerY |-> Num(centerY),
   spreadX |-> Num(spreadX), spreadY |-> Num(spreadY),
   count |-> count, baseProb |-> baseProb, variance |-> variance]

ClustersOf(player) ==
  IF player = "Stephen Curry"
    THEN <<Cluster(HOOP_X + 24, CENTER_Y - 15, 6, 5, 120, Frac(52, 100), Frac(6, 100)),
           Cluster(HOOP_X + 26, CENTER_Y + 15, 6, 5, 120, Frac(54, 100), Frac(6, 100)),
           Cluster(HOOP_X + 22, CENTER_Y, 7, 4, 120, Frac(50, 100), Frac(5, 100)),
           Cluster(HOOP_X + 10, CENTER_Y, 10, 10, 60, Frac(40, 100), Frac(6, 100))>>
  ELSE IF player = "LeBron James"
    THEN <<Cluster(HOOP_X + 2, CENTER_Y, 4, 6, 160, Frac(65, 100), Frac(5, 100)),
           Cluster(HOOP_X + 10, CENTER_Y + 8, 6, 4, 100, Frac(50, 100), Frac(6, 100)),
           Cluster(HOOP_X + 10, CENTER_Y - 8, 6, 4, 100, Frac(50, 100), Frac(6, 100)),
           Cluster(HOOP_X + 18, CENTER_Y, 8, 6, 60, Frac(38, 100), Frac(5, 100))>>
  ELSE IF player = "Kevin Durant"
    THEN <<Cluster(HOOP_X + 16, CENTER_Y + 8, 5, 4, 140, Frac(55, 100), Frac(5, 100)),
           Cluster(HOOP_X + 16, CENTER_Y - 8, 5, 4, 140, Frac(55, 100), Frac(5, 100)),
           Cluster(HOOP_X + 24, CENTER_Y, 7, 5, 100, Frac(44, 100), Frac(5, 100)),
           Cluster(HOOP_X + 6, CENTER_Y, 5, 5, 60, Frac(50, 100), Frac(5, 100))>>
  ELSE <<Cluster(HOOP_X + 4, CENTER_Y, 6, 8, 140, Frac(58, 100), Frac(5, 100)),
         Cluster(HOOP_X + 18, CENTER_Y, 10, 10, 120, Frac(42, 100), Frac(6, 100)),
         Cluster(HOOP_X + 26, CENTER_Y, 10, 12, 100, Frac(36, 100), Frac(6, 100))>>

\* bound of the point cloud: the points generated of one cluster (the count
\* of a cluster is 60 to 160)
MaxClusterCount == 1

\* the body of the loop of addCluster, for three results of Math.random()
ClusterPoint(c, rx, ry, rw) ==
  LET x == Add(c.centerX, Mul(Sub(Mul(rx, Num(2)), Num(1)), c.spreadX))
      y == Add(c.centerY, Mul(Sub(Mul(ry, Num(2)), Num(1)), c.spreadY))
      weight == MathMax(Frac(2, 10),
                        MathMin(Frac(7, 10),
                                Add(c.baseProb,
                                    Mul(Sub(Mul(rw, Num(2)), Num(1)), c.variance))))
      cx == MathMax(Num(0), MathMin(Num(47), x))
      cy == MathMax(Num(0), MathMin(Num(50), y))
  IN  HeatmapPoint(cx, cy, weight)

\* a mutant of addCluster: the loop tests i > count and never runs
addClusterSkipped(arr, c, stream, used) == arr

\* addCluster: the points of cluster c pushed to arr, after `used` results
\* of the stream
addCluster(arr, c, stream, used) ==
  arr \o [i \in 1..Min(c.count, MaxClusterCount) |->
            ClusterPoint(c, MathRandom(stream, used + 3 * i - 2),
                            MathRandom(stream, used + 3 * i - 1),
                            MathRandom(stream, used + 3 * i))]

RECURSIVE addClusters(_, _, _, _)
addClusters(arr, clusters, stream, used) ==
  IF clusters = <<>> THEN arr
  ELSE addClusters(addCluster(arr, Head(clusters), stream, used), Tail(clusters),
                   stream, used + 3 * Min(Head(clusters).count, MaxClusterCount))

\* the value of the useMemo of playerHeatmap when it is computed
playerHeatmapOf(player, stream) == addClusters(<<>>, ClustersOf(player), stream, 0)

\* the streams of the generations in the click flow
ClickFlowStreams == {[seed |-> 0, step |-> 1], [seed |-> 2, step |-> 3]}

\* the values selectedPlayer takes in the click flow
ClickFlowPlayers ==
  {NullString} \cup {FallbackPlayers[i] : i \in 1..Len(FallbackPlayers)}
              \cup UNION {{list[i] : i \in 1..Len(list)} : list \in ServerPlayerLists}

\* the list the useMemo callback returns for each player and stream of the
\* click flow
GeneratedClouds ==
  [player \in ClickFlowPlayers, stream \in ClickFlowStreams |->
     playerHeatmapOf(player, stream)] @@ <<>>

\* useMemo(..., [selectedPlayer]) at a render: the lists it can return.
\* The list is kept while the player is the same as at the render before
playerHeatmapMemo(previous, previousPlayer, player) ==
  IF previous # Null /\ player = previousPlayer THEN {previous}
  ELSE {GeneratedClouds[player, stream] : stream \in ClickFlowStreams}

\* bounds of the click flow: the requests sent in one session, and the
\* player cards the user picks from (the first MaxCards of the list)
MaxClicks == 2
MaxCards == 2

\* the pixels clicked: one in every zone and on both sides of every threshold
ClickPixels ==
  {<<88, 258>>,    \* (24, 112): distance 4
   <<90, 258>>,    \* (24, 113): just beyond 4
   <<134, 280>>,   \* (48, 144): distance 8
   <<136, 280>>,   \* (48, 145): just beyond 8
   <<250, 235>>,   \* (0, 225): distance 14.5
   <<381, 235>>,   \* (0, 317): distance 23.7
   <<383, 235>>,   \* (0, 318): distance 23.8
   <<0, 470>>,     \* (250, 50): right corner
   <<0, 0>>,       \* (-250, 50): left corner
   <<143, 0>>}     \* (-250, 150): first row not below 150

RangeOf(seq) == {seq[i] : i \in 1..Len(seq)}

AppInit ==
  /\ players = <<>>
  /\ selectedPlayer = NullString
  /\ appLoading = TRUE
  /\ appError = NullString
  /\ sessionStats = InitialSessionStats
  /\ prediction = Null
  /\ loading = FALSE
  /\ error = NullString
  /\ shotLocation = Null
  /\ playerHeatmap = Null
  /\ clicks = 0
  /\ pending = {}
  /\ resolved = <<>>

\* the heatmap's variables in a specification that does not render it
HeatmapIdle ==
  /\ hProps = Null
  /\ hEnv = Null
  /\ hCanvas = Null
  /\ hLast = Null

\* the mapper's variables in a specification that does not call it alone
MapperIdle ==
  /\ mIn = Null
  /\ mOp = <<>>
  /\ mOut = <<>>

\* a mutant of RenderShotPredictor: the list is generated at every render
RenderShotPredictorUnmemoized ==
  playerHeatmap' \in {GeneratedClouds[selectedPlayer', stream] : stream \in ClickFlowStreams}

\* the render of ShotPredictor that follows a change of state: the useMemo
\* of playerHeatmap
RenderShotPredictor ==
  playerHeatmap' \in playerHeatmapMemo(playerHeatmap, selectedPlayer, selectedPlayer')

\* fetchPlayers: apiClient.getPlayers() resolved
FetchPlayersOk ==
  /\ appLoading
  /\ \E list \in ServerPlayerLists :
       /\ players' = list
       /\ selectedPlayer' = IF Len(list) > 0 THEN list[1] ELSE selectedPlayer
  /\ appLoading' = FALSE
  /\ UNCHANGED <<appError, sessionStats, prediction, loading, error, shotLocation,
                 requestVars, mapperVars, heatVars>>
  /\ RenderShotPredictor

\* a mutant of FetchPlayersFail: the fallback list is set and no player of
\* it is selected
FetchPlayersFailNoSelection ==
  /\ appLoading
  /\ appError' = "Failed to fetch players - using offline data"
  /\ players' = FallbackPlayers
  /\ appLoading' = FALSE
  /\ UNCHANGED <<selectedPlayer, sessionStats, prediction, loading, error, shotLocation,
                 requestVars, mapperVars, heatVars>>
  /\ RenderShotPredictor

\* fetchPlayers: apiClient.getPlayers() rejected
FetchPlayersFail ==
  /\ appLoading
  /\ appError' = "Failed to fetch players - using offline data"
  /\ players' = FallbackPlayers
  /\ selectedPlayer' = "LeBron James"
  /\ appLoading' = FALSE
  /\ UNCHANGED <<sessionStats, prediction, loading, error, shotLocation,
                 requestVars, mapperVars, heatVars>>
  /\ RenderShotPredictor

\* PlayerSelector: a click on a player card
SelectPlayer ==
  /\ ~appLoading
  /\ \E i \in 1..Min(Len(players), MaxCards) : selectedPlayer' = players[i]
  /\ UNCHANGED <<players, appLoading, appError, sessionStats,
                 prediction, loading, error, shotLocation,
                 requestVars, mapperVars, heatVars>>
  /\ RenderShotPredictor

\* a mutant of CourtClickNoPlayer: the check of the player comes after
\* setLoading(true)
CourtClickNoPlayerLoading ==
  /\ ~appLoading
  /\ selectedPlayer = NullString
  /\ loading' = TRUE
  /\ error' = "Please select a player first"
  /\ UNCHANGED <<prediction, shotLocation, appVars, requestVars, mapperVars, heatVars>>
  /\ RenderShotPredictor

\* handleCourtClick with no player selected
CourtClickNoPlayer ==
  /\ ~appLoading
  /\ selectedPlayer = NullString
  /\ error' = "Please select a player first"
  /\ UNCHANGED <<prediction, loading, shotLocation, appVars, requestVars, mapperVars, heatVars>>
  /\ RenderShotPredictor

\* handleCourtClick, up to the await of apiClient.predictShot
CourtClick ==
  /\ ~appLoading
  /\ selectedPlayer # NullString
  /\ clicks < MaxClicks
  /\ \E px \in ClickPixels :
       LET shotData == ShotData(Pos(Num(px[1]), Num(px[2])), selectedPlayer)
       IN  /\ loading' = TRUE
           /\ error' = NullString
           /\ shotLocation' = [x |-> shotData.LOC_X, y |-> shotData.LOC_Y,
                               distance |-> shotData.SHOT_DISTANCE]
           /\ clicks' = clicks + 1
           /\ pending' = pending \cup {[id |-> clicks + 1, shotData |-> shotData]}
  /\ UNCHANGED <<prediction, resolved, appVars, mapperVars, heatVars>>
  /\ RenderShotPredictor

\* a mutant of ResolveOk: a response to a request that is not the latest
\* one is dropped
ResolveOkLatestOnly(req, shot_made) ==
  /\ req \in pending
  /\ LET result == [shot_made |-> shot_made, request |-> req.id]
     IN  /\ prediction' = IF req.id = clicks THEN result ELSE prediction
         /\ sessionStats' =
              IF onPredictionPassed
                THEN updateSessionStats(sessionStats, result.shot_made,
                                        req.shotData.PLAYER_NAME,
                                        req.shotData.SHOT_ZONE_BASIC)
                ELSE sessionStats
         /\ resolved' = Append(resolved, [request |-> req.id, ok |-> TRUE, result |-> result])
  /\ loading' = FALSE
  /\ pending' = pending \ {req}
  /\ UNCHANGED <<error, shotLocation, clicks, players, selectedPlayer, appLoading,
                 appError, mapperVars, heatVars>>
  /\ RenderShotPredictor

\* handleCourtClick after the await: the request `req` resolved with a
\* prediction
ResolveOk(req, shot_made) ==
  /\ req \in pending
  /\ LET result == [shot_made |-> shot_made, request |-> req.id]
     IN  /\ prediction' = result
         /\ sessionStats' =
              IF onPredictionPassed
                THEN updateSessionStats(sessionStats, result.shot_made,
                                        req.shotData.PLAYER_NAME,
                                        req.shotData.SHOT_ZONE_BASIC)
                ELSE sessionStats
         /\ resolved' = Append(resolved, [request |-> req.id, ok |-> TRUE, result |-> result])
  /\ loading' = FALSE
  /\ pending' = pending \ {req}
  /\ UNCHANGED <<error, shotLocation, clicks, players, selectedPlayer, appLoading,
                 appError, mapperVars, heatVars>>
  /\ RenderShotPredictor

\* a mutant of ResolveFail: the failure also clears the prediction on display
ResolveFailClearing(req) ==
  /\ req \in pending
  /\ error' = "Failed to predict shot. Please try again."
  /\ loading' = FALSE
  /\ prediction' = Null
  /\ pending' = pending \ {req}
  /\ resolved' = Append(resolved, [request |-> req.id, ok |-> FALSE, result |-> Null])
  /\ UNCHANGED <<shotLocation, clicks, appVars, mapperVars, heatVars>>
  /\ RenderShotPredictor

\* handleCourtClick after the await: the request `req` failed (a network
\* error or a response that is not OK)
ResolveFail(req) ==
  /\ req \in pending
  /\ error' = "Failed to predict shot. Please try again."
  /\ loading' = FALSE
  /\ pending' = pending \ {req}
  /\ resolved' = Append(resolved, [request |-> req.id, ok |-> FALSE, result |-> Null])
  /\ UNCHANGED <<prediction, shotLocation, clicks, appVars, mapperVars, heatVars>>
  /\ RenderShotPredictor

PredictionResolved == \E req \in pending : \E shot_made \in BOOLEAN : ResolveOk(req, shot_made)

PredictionFailed == \E req \in pending : ResolveFail(req)

Init == AppInit /\ MapperIdle /\ HeatmapIdle

Next ==
  \/ FetchPlayersOk
  \/ FetchPlayersFail
  \/ SelectPlayer
  \/ CourtClickNoPlayer
  \/ CourtClick
  \/ PredictionResolved
  \/ PredictionFailed

Spec == Init /\ [][Next]_vars

\* ---------------------------------------------------------------------
\* updateSessionStats called alone, any number of times from the initial
\* session statistics
\* ---------------------------------------------------------------------

\* bound of the session: the calls of updateSessionStats
MaxShots == 5

\* the arguments of a call
SessionCalls ==
  [shotMade : BOOLEAN,
   player : {"LeBron James", "Stephen Curry"},
   zone : {"Restricted Area", "Above the Break 3"}]

SessionInit == AppInit /\ MapperIdle /\ HeatmapIdle

\* updateSessionStats(shotMade, player, zone): setSessionStats with the
\* updater applied to the statistics before
UpdateSessionStats ==
  /\ sessionStats.totalShots < MaxShots
  /\ \E call \in SessionCalls :
       /\ mIn' = call
       /\ mOp' = <<"updateSessionStats">>
       /\ sessionStats' = updateSessionStats(sessionStats, call.shotMade, call.player, call.zone)
  /\ UNCHANGED <<mOut, players, selectedPlayer, appLoading, appError,
                 predictorVars, requestVars, heatVars>>

SessionNext == UpdateSessionStats

SpecSession == SessionInit /\ [][SessionNext]_vars

---------------------------------------------------------------------------
(* Heatmap.tsx                                                             *)

Undefined == [undefined |-> TRUE]

\* Math.floor, as a whole number
MathFloor(a) == a.n \div a.d

\* the points a data list is made of: one with a weight, one without
HeatmapPoints ==
  {HeatmapPoint(Num(12), Num(25), Frac(65, 100)),
   HeatmapPoint(Num(46), Num(10), Undefined)}

\* bound of the heatmap: the length of a data list
MaxPoints == 2

\* bound of the heatmap: the blurred layers counted outside the cleared
\* rectangle
MaxBleed == 2

RECURSIVE SeqsUpTo(_, _)
SeqsUpTo(S, n) ==
  IF n = 0 THEN {<<>>}
  ELSE LET shorter == SeqsUpTo(S, n - 1)
       IN  shorter \cup {Append(q, e) : q \in {t \in shorter : Len(t) = n - 1}, e \in S}

DataLists == SeqsUpTo(HeatmapPoints, MaxPoints)

\* the boxes of the container div, in CSS pixels
ContainerWidths == {0, 250, CLICK_WIDTH}
ContainerHeights == {0, CLICK_HEIGHT}

\* the boxes the layout gives the container: the size of the props, half as
\* wide, of zero width, of zero height
ContainerBoxes ==
  {box \in ContainerWidths \X ContainerHeights :
     box[1] = CLICK_WIDTH \/ box[2] = CLICK_HEIGHT}

DevicePixelRatios == {1, 2}

\* the calls of a pass that change pixels, as against the state calls
\* (setTransform, save, restore)
DrawingCalls == {"clearRect", "fill", "drawImage"}

Call(target, name, args) == [target |-> target, call |-> name, args |-> args]

\* the props' defaults
DEFAULT_RADIUS == Num(24)
DEFAULT_MAX_OPACITY == Frac(85, 100)

\* leagueAverage ?? 0.45
avg(leagueAverage) ==
  IF leagueAverage # Undefined THEN leagueAverage ELSE Frac(45, 100)

\* a mutant of band: leagueBand is used as it is given
bandUnclamped(leagueBand) ==
  IF leagueBand # Undefined THEN leagueBand ELSE Frac(2, 10)

\* Math.max(0.05, Math.min(0.4, leagueBand ?? 0.2))
band(leagueBand) ==
  MathMax(Frac(5, 100),
          MathMin(Frac(4, 10),
                  IF leagueBand # Undefined THEN leagueBand ELSE Frac(2, 10)))

\* the ends of the RdYlGn ramp; a colour is its position on the ramp, the
\* argument d3.interpolateRdYlGn is called with
RAMP_LOW == Num(0)
RAMP_HIGH == Num(1)

\* a mutant of colorScale: the position on the ramp is not clamped
colorScaleUnclamped(prob, average, tolerance) ==
  LET x0 == Sub(average, tolerance)
      x1 == Add(average, tolerance)
  IN  Mul(Sub(prob, x0), Div(Num(1), Sub(x1, x0)))

\* d3.scaleSequential(d3.interpolateRdYlGn).domain([avg - band, avg + band])
\* .clamp(true), applied to prob
colorScale(prob, average, tolerance) ==
  LET x0 == Sub(average, tolerance)
      x1 == Add(average, tolerance)
      t == Mul(Sub(prob, x0), Div(Num(1), Sub(x1, x0)))
  IN  MathMax(RAMP_LOW, MathMin(RAMP_HIGH, t))

\* the least alpha of a splat
MIN_ALPHA == Frac(18, 100)

\* a mutant of emphasisScale: the range starts at 0
emphasisScaleFromZero(delta, tolerance, maxOpacity) ==
  LET x == MathMax(Num(0), MathMin(tolerance, delta))
      t == Div(x, tolerance)
  IN  Mul(maxOpacity, t)

\* d3.scaleLinear().domain([0, band]).range([0.18, maxOpacity]).clamp(true),
\* applied to delta: the input is clamped to the domain, then mapped
emphasisScale(delta, tolerance, maxOpacity) ==
  LET x == MathMax(Num(0), MathMin(tolerance, delta))
      t == Div(x, tolerance)
  IN  Add(Mul(MIN_ALPHA, Sub(Num(1), t)), Mul(maxOpacity, t))

MIN_RADIUS == Num(8)

\* a mutant of SplatRadius: the radius is not kept at 8 or more
SplatRadiusNoFloor(radius, delta, tolerance) ==
  Mul(radius, Add(Frac(9, 10), Mul(Frac(12, 10), Div(delta, tolerance))))

\* r: Math.max(8, radius * (0.9 + 1.2 * (delta / band)))
SplatRadius(radius, delta, tolerance) ==
  MathMax(MIN_RADIUS,
          Mul(radius, Add(Frac(9, 10), Mul(Frac(12, 10), Div(delta, tolerance)))))

\* a mutant of SplatStyle: a point without weight counts as probability 0
SplatStyleZeroDefault(weight, leagueAverage, leagueBand, maxOpacity, radius) ==
  LET average == avg(leagueAverage)
      tolerance == band(leagueBand)
      prob == IF weight # Undefined THEN weight ELSE Num(0)
      delta == MathAbs(Sub(prob, average))
  IN  [prob |-> prob,
       color |-> colorScale(prob, average, tolerance),
       alpha |-> emphasisScale(delta, tolerance, maxOpacity),
       r |-> SplatRadius(radius, delta, tolerance)]

\* what the loop computes for a point from its weight: the probability shown,
\* the colour, the alpha at the centre and the radius
SplatStyle(weight, leagueAverage, leagueBand, maxOpacity, radius) ==
  LET average == avg(leagueAverage)
      tolerance == band(leagueBand)
      prob == IF weight # Undefined THEN weight ELSE average
      delta == MathAbs(Sub(prob, average))
  IN  [prob |-> prob,
       color |-> colorScale(prob, average, tolerance),
       alpha |-> emphasisScale(delta, tolerance, maxOpacity),
       r |-> SplatRadius(radius, delta, tolerance)]

\* a mutant of Splat: the point is converted with the pixel size that
\* courtDimensions carries
SplatNominalSize(p, props, drawWidth, drawHeight) ==
  LET style == SplatStyle(p.weight, props.leagueAverage, props.leagueBand,
                          props.maxOpacity, props.radius)
      dims == IF props.courtDimensions # Undefined THEN props.courtDimensions
                                                   ELSE DEFAULT_COURT_DIMENSIONS
      screen == courtToScreenCoordinates(Pos(p.x, p.y), dims)
      px == IF props.coordinateSpace = "court" THEN screen.x ELSE p.x
      py == IF props.coordinateSpace = "court" THEN screen.y ELSE p.y
  IN  [px |-> px, py |-> py, prob |-> style.prob, color |-> style.color,
       alpha |-> style.alpha, r |-> style.r]

\* the splat of one point: where it is centred and how it is styled
Splat(p, props, drawWidth, drawHeight) ==
  LET style == SplatStyle(p.weight, props.leagueAverage, props.leagueBand,
                          props.maxOpacity, props.radius)
      dims == IF props.courtDimensions # Undefined THEN props.courtDimensions
                                                   ELSE DEFAULT_COURT_DIMENSIONS
      screen == courtToScreenCoordinates(Pos(p.x, p.y),
                  [dims EXCEPT !.width = Num(drawWidth), !.height = Num(drawHeight)])
      px == IF props.coordinateSpace = "court" THEN screen.x ELSE p.x
      py == IF props.coordinateSpace = "court" THEN screen.y ELSE p.y
  IN  [px |-> px, py |-> py, prob |-> style.prob, color |-> style.color,
       alpha |-> style.alpha, r |-> style.r]

\* the props ShotPredictor renders the heatmap with, and the other values of
\* the props that decide the coordinates and the size
HeatmapPropsSet ==
  [width : {CLICK_WIDTH}, height : {CLICK_HEIGHT},
   data : DataLists,
   autoResize : BOOLEAN,
   coordinateSpace : {"screen", "court"},
   courtDimensions : {ClickDimensions},
   leagueAverage : {Frac(45, 100)},
   leagueBand : {Frac(2, 10)},
   radius : {Num(28)},
   maxOpacity : {Frac(9, 10)}]

\* court dimensions of a court without length
ZeroLengthDimensions == CourtDimensions(CLICK_WIDTH, CLICK_HEIGHT, 0, CLICK_WIDTH_FEET)

ZeroWidthDimensions == CourtDimensions(CLICK_WIDTH, CLICK_HEIGHT, CLICK_LENGTH_FEET, 0)

\* the props above, and the same with the court without length and with the
\* court without width
HeatmapPropsAny ==
  HeatmapPropsSet
    \cup {[q EXCEPT !.courtDimensions = d] :
            q \in HeatmapPropsSet, d \in {ZeroLengthDimensions, ZeroWidthDimensions}}

\* the splats of the points of the data lists, under each value of the props
\* and each draw size; @@ makes the function an explicit table, so that the
\* arithmetic of a splat is done once
SplatsOfPoints ==
  [p \in HeatmapPoints, props \in {q \in HeatmapPropsAny : q.data = <<>>},
   box \in ContainerBoxes |-> Splat(p, props, box[1], box[2])] @@ <<>>

\* the offscreen buffer's width or height for a draw width or height
\* a mutant of OffscreenSize: the size is not kept at 1 or more
OffscreenSizeUnguarded(drawSize) == MathFloor(Num(drawSize))

OffscreenSize(drawSize) == Max(1, MathFloor(Num(drawSize)))

\* what clearRect(0, 0, drawWidth, drawHeight) leaves of the surface: nothing
\* when the rectangle covers the bitmap; what is outside the rectangle stays
\* a mutant of ClearedSurface: the pass does not clear
ClearedSurfaceKept(surface, covers) == surface

ClearedSurface(surface, covers) == IF covers THEN {} ELSE surface

\* the splat colours pixels of the offscreen buffer on an edge beyond which
\* the bitmap goes on: the composite is drawn through blur(1.2px), which
\* spreads those pixels past the rectangle that was cleared
ReachesUnclearedEdge(splat, drawWidth, drawHeight, dpr, canvas) ==
  /\ Lt(Sub(splat.px, splat.r), Num(drawWidth))
  /\ Lt(Sub(splat.py, splat.r), Num(drawHeight))
  /\ Lt(Num(0), Add(splat.px, splat.r))
  /\ Lt(Num(0), Add(splat.py, splat.r))
  /\ \/ drawWidth * dpr < canvas.width /\ Lt(Num(drawWidth), Add(splat.px, splat.r))
     \/ drawHeight * dpr < canvas.height /\ Lt(Num(drawHeight), Add(splat.py, splat.r))

\* the loop over the points and the composite of the offscreen buffer onto
\* the cleared canvas: the canvas after it, the calls of the pass and whether
\* it threw.  drawImage throws on a source canvas of width or height 0
\* (throws), and paints nothing into a destination of width or height 0
DrawAndComposite(splats, cleared, begun, drawWidth, drawHeight, dpr, throws) ==
  LET fills == [i \in 1..Len(splats) |-> Call("offscreen", "fill", <<splats[i]>>)]
      \* createRadialGradient throws a TypeError on an argument that is not
      \* finite
      notFinite == {i \in 1..Len(splats) :
                      ~(IsFinite(splats[i].px) /\ IsFinite(splats[i].py)
                          /\ IsFinite(splats[i].r))}
      composited ==
        IF drawWidth > 0 /\ drawHeight > 0
          THEN [cleared EXCEPT
                  !.surface = @ \cup RangeOf(splats),
                  !.bleed = IF \E i \in 1..Len(splats) :
                                  ReachesUnclearedEdge(splats[i], drawWidth,
                                                       drawHeight, dpr, cleared)
                              THEN @ + 1 ELSE @]
          ELSE cleared
  IN  IF notFinite # {}
        THEN LET first == CHOOSE i \in notFinite : \A j \in notFinite : i <= j
             IN  [canvas |-> cleared,
                  calls |-> begun \o SubSeq(fills, 1, first - 1),
                  threw |-> TRUE]
      ELSE IF throws
        THEN [canvas |-> cleared,
              calls |-> begun \o fills \o <<Call("visible", "save", <<>>)>>,
              threw |-> TRUE]
      ELSE [canvas |-> composited,
            calls |-> begun \o fills \o
                      <<Call("visible", "save", <<>>),
                        Call("visible", "drawImage", <<drawWidth, drawHeight>>),
                        Call("visible", "restore", <<>>)>>,
            threw |-> FALSE]

\* one run of the effect that draws the heatmap: the canvas after it, the
\* calls it made on the visible and the offscreen context, and whether it
\* threw.  The container div is in the document exactly when the canvas is.
RenderPass(props, env, canvas) ==
  IF ~env.canvas \/ ~env.ctx
    THEN [canvas |-> canvas, calls |-> <<>>, threw |-> FALSE]
  ELSE
    LET container == env.canvas
        w == IF props.autoResize /\ container
               THEN (IF env.clientWidth # 0 THEN env.clientWidth ELSE props.width)
               ELSE props.width
        h == IF props.autoResize /\ container
               THEN (IF env.clientHeight # 0 THEN env.clientHeight ELSE props.height)
               ELSE props.height
        dpr == IF env.devicePixelRatio # 0 THEN env.devicePixelRatio ELSE 1
        targetW == Max(1, MathFloor(Num(w * dpr)))
        targetH == Max(1, MathFloor(Num(h * dpr)))
        \* assigning canvas.width or canvas.height resets the bitmap
        sized == IF canvas.width # targetW \/ canvas.height # targetH
                   THEN [width |-> targetW, height |-> targetH, transform |-> 1,
                         surface |-> {}, bleed |-> 0]
                   ELSE canvas
        drawWidth == IF container THEN env.clientWidth ELSE props.width
        drawHeight == IF container THEN env.clientHeight ELSE props.height
        \* the rectangle is scaled by dpr
        covers == drawWidth * dpr >= sized.width /\ drawHeight * dpr >= sized.height
        cleared == [sized EXCEPT !.transform = dpr,
                                 !.surface = ClearedSurface(@, covers),
                                 !.bleed = IF covers THEN 0 ELSE @]
        begun == <<Call("visible", "setTransform", <<dpr>>),
                   Call("visible", "clearRect", <<drawWidth, drawHeight>>)>>
        offWidth == OffscreenSize(drawWidth)
        offHeight == OffscreenSize(drawHeight)
    IN  IF ~env.offCtx
          THEN [canvas |-> cleared, calls |-> begun, threw |-> FALSE]
        ELSE
          DrawAndComposite([i \in 1..Len(props.data) |->
                              SplatsOfPoints[props.data[i], [props EXCEPT !.data = <<>>],
                                             <<drawWidth, drawHeight>>]],
                           cleared, begun, drawWidth, drawHeight, dpr,
                           offWidth = 0 \/ offHeight = 0)

\* what the browser provides: no context without a canvas, no offscreen
\* context looked for without a context
Availabilities ==
  {[canvas |-> FALSE, ctx |-> FALSE, offCtx |-> FALSE],
   [canvas |-> TRUE, ctx |-> FALSE, offCtx |-> FALSE],
   [canvas |-> TRUE, ctx |-> TRUE, offCtx |-> FALSE],
   [canvas |-> TRUE, ctx |-> TRUE, offCtx |-> TRUE]}

HeatmapEnvSet ==
  {e \in [canvas : BOOLEAN, ctx : BOOLEAN, offCtx : BOOLEAN,
          clientWidth : ContainerWidths, clientHeight : ContainerHeights,
          devicePixelRatio : DevicePixelRatios] :
     /\ [canvas |-> e.canvas, ctx |-> e.ctx, offCtx |-> e.offCtx] \in Availabilities
     /\ <<e.clientWidth, e.clientHeight>> \in ContainerBoxes}


\* the canvas element as rendered: width and height attributes from the
\* props, nothing drawn
HeatmapInit ==
  /\ hProps \in HeatmapPropsSet
  /\ hEnv \in HeatmapEnvSet
  /\ hCanvas = [width |-> hProps.width, height |-> hProps.height, transform |-> 1,
                surface |-> {}, bleed |-> 0]
  /\ hLast = Null
  /\ AppInit
  /\ MapperIdle

RunEffect(props) ==
  \E pass \in {RenderPass(props, hEnv, hCanvas)} :
      /\ hCanvas' = pass.canvas
      /\ LET repeat == hLast # Null /\ hLast.props = props /\ hLast.env = hEnv
         IN  hLast' = [props |-> props, env |-> hEnv, before |-> hCanvas,
                       calls |-> pass.calls, threw |-> pass.threw,
                       \* the pass before this one had the same inputs; the
                       \* calls of that pass
                       repeat |-> repeat,
                       callsBefore |-> IF repeat THEN hLast.calls ELSE <<>>]

\* the effect after the first render
HeatmapMount ==
  /\ hProps # Null
  /\ hLast = Null
  /\ RunEffect(hProps)
  /\ UNCHANGED <<hProps, hEnv, mapperVars, appVars, predictorVars, requestVars>>

\* a render with a new point list (the player changed), and the effect after it
HeatmapDataChange ==
  /\ hLast # Null
  /\ hCanvas.bleed < MaxBleed
  /\ \E data \in DataLists \ {hProps.data} :
       /\ hProps' = [hProps EXCEPT !.data = data]
       /\ RunEffect(hProps')
  /\ UNCHANGED <<hEnv, mapperVars, appVars, predictorVars, requestVars>>

\* a render of ShotPredictor with nothing changed: courtDimensions is a new
\* object of the same content, a dependency of the effect, so the effect
\* runs again
HeatmapRerender ==
  /\ hLast # Null
  /\ hCanvas.bleed < MaxBleed
  /\ RunEffect(hProps)
  /\ UNCHANGED <<hProps, hEnv, mapperVars, appVars, predictorVars, requestVars>>

\* the layout changes the container's box; no effect runs
ContainerResize ==
  /\ hEnv # Null
  /\ hEnv.canvas
  /\ \E box \in ContainerBoxes :
       /\ box # <<hEnv.clientWidth, hEnv.clientHeight>>
       /\ hEnv' = [hEnv EXCEPT !.clientWidth = box[1], !.clientHeight = box[2]]
  /\ UNCHANGED <<hProps, hCanvas, hLast, mapperVars, appVars, predictorVars, requestVars>>

HeatmapNext ==
  \/ HeatmapMount
  \/ HeatmapDataChange
  \/ HeatmapRerender
  \/ ContainerResize

SpecHeatmap == HeatmapInit /\ [][HeatmapNext]_vars

---------------------------------------------------------------------------
(* Properties of the click flow.                                           *)

\* C2: prediction requests are never cancelled or coalesced: every request
\* sent by a click is in flight or has resolved, exactly once, whatever else
\* is pending; and once all requests have resolved successfully the
\* prediction on display is the response that resolved last, whatever the
\* order of the clicks.
C2_NoCancellationLastResponseShown ==
  LET inFlight == {r.id : r \in pending}
      done == {resolved[i].request : i \in 1..Len(resolved)}
  IN  /\ inFlight \cup done = 1..clicks
      /\ inFlight \cap done = {}
      /\ Cardinality(pending) = Cardinality(inFlight)
      /\ Cardinality(done) = Len(resolved)
      /\ (pending = {} /\ Len(resolved) > 0 /\ \A i \in 1..Len(resolved) : resolved[i].ok) =>
           /\ prediction = resolved[Len(resolved)].result
           /\ ~loading
           /\ error = NullString

\* C2 witness: two requests were in flight together, the second click's
\* resolved first, and the prediction on display is the first click's
C2_Witness ==
  /\ pending = {}
  /\ Len(resolved) = 2
  /\ resolved[1].request = 2 /\ resolved[1].ok
  /\ resolved[2].request = 1 /\ resolved[2].ok
  /\ prediction.request = 1
  /\ prediction.shot_made # resolved[1].result.shot_made

\* C4: the zone the click handler sends is a stateless function of the
\* analytics position (x, y): with d = sqrt((x/10)^2 + ((y-80)/10)^2) it is
\* 'Restricted Area' iff d <= 4, 'In The Paint (Non-RA)' iff 4 < d <= 8,
\* 'Mid-Range' iff 8 < d <= 23.75, and for d > 23.75 'Right Corner 3' iff
\* x > 200 and y < 150, 'Left Corner 3' iff x < -200 and y < 150, and 'Above
\* the Break 3' otherwise; the same position gets the same label whatever
\* was clicked before.
C4_ClickZoneOfPosition ==
  /\ \A r \in pending :
       LET x == r.shotData.LOC_X.n
           y == r.shotData.LOC_Y.n
           zone == r.shotData.SHOT_ZONE_BASIC
           \* (10 d)^2, and 23.75 as 95/4
           dd == x * x + (y - 80) * (y - 80)
           beyond == 4 * 4 * dd > 950 * 950
       IN  /\ IsInteger(r.shotData.LOC_X) /\ IsInteger(r.shotData.LOC_Y)
           /\ (zone = "Restricted Area") <=> (dd <= 40 * 40)
           /\ (zone = "In The Paint (Non-RA)") <=> (40 * 40 < dd /\ dd <= 80 * 80)
           /\ (zone = "Mid-Range") <=> (80 * 80 < dd /\ ~beyond)
           /\ (zone = "Right Corner 3") <=> (beyond /\ x > 200 /\ y < 150)
           /\ (zone = "Left Corner 3") <=> (beyond /\ x < -200 /\ y < 150)
           /\ (zone = "Above the Break 3") <=>
                (beyond /\ ~(x > 200 /\ y < 150) /\ ~(x < -200 /\ y < 150))
  /\ \A r1, r2 \in pending :
       (r1.shotData.LOC_X = r2.shotData.LOC_X /\ r1.shotData.LOC_Y = r2.shotData.LOC_Y)
         => r1.shotData.SHOT_ZONE_BASIC = r2.shotData.SHOT_ZONE_BASIC

\* C4 witness: after a click in the right corner, a click at (24, 112), at
\* distance exactly 4, is sent as 'Restricted Area'
C4_Witness ==
  \E r1, r2 \in pending :
    /\ r1.id = 1 /\ r1.shotData.SHOT_ZONE_BASIC = "Right Corner 3"
    /\ r2.id = 2 /\ r2.shotData.LOC_X = Num(24) /\ r2.shotData.LOC_Y = Num(112)
    /\ r2.shotData.SHOT_ZONE_BASIC = "Restricted Area"

\* C14: a prediction request that fails is surfaced only as the message
\* 'Failed to predict shot. Please try again.': the step that settles it sets
\* that message and loading to false, leaves the prediction on display as it
\* was, calls no onPrediction (the session statistics stay), and sends no
\* request again (the failed request leaves the ones in flight, none is
\* added, and no click is counted).
C14_FailureOnlyShowsMessage ==
  [][(Len(resolved') = Len(resolved) + 1 /\ ~resolved'[Len(resolved')].ok) =>
       /\ error' = "Failed to predict shot. Please try again."
       /\ loading' = FALSE
       /\ prediction' = prediction
       /\ sessionStats' = sessionStats
       /\ clicks' = clicks
       /\ \E req \in pending :
            /\ req.id = resolved'[Len(resolved')].request
            /\ pending' = pending \ {req}]_vars

\* a request failed after another had succeeded: the message is shown and the
\* earlier prediction is still the one held
C14_Witness ==
  /\ Len(resolved) = 2
  /\ resolved[1].ok
  /\ ~resolved[2].ok
  /\ prediction = resolved[1].result
  /\ error = "Failed to predict shot. Please try again."
  /\ ~loading
  /\ pending = {}
  /\ clicks = 2

ThreePointZones == {"Right Corner 3", "Left Corner 3", "Above the Break 3"}

\* C16: the request a click sends carries LOC_X and LOC_Y equal to the
\* screenToCourt result of the click, PLAYER_NAME equal to the player
\* selected at the click, and SHOT_TYPE '3PT Field Goal' exactly when
\* SHOT_ZONE_BASIC is one of the three three-point zones, which is exactly
\* when SHOT_DISTANCE is above 23.75; otherwise '2PT Field Goal'.
C16_RequestCarriesTheClick ==
  [][clicks' = clicks + 1 =>
       \E req \in pending' \ pending :
         /\ pending' = pending \cup {req}
         /\ req.id = clicks'
         /\ \E px \in ClickPixels :
              LET courtPos == screenToCourtCoordinates(Pos(Num(px[1]), Num(px[2])),
                                                       ClickDimensions)
              IN  /\ req.shotData.LOC_X = courtPos.x
                  /\ req.shotData.LOC_Y = courtPos.y
                  /\ req.shotData.SHOT_DISTANCE = ClickDistance(courtPos)
                  /\ req.shotData.SHOT_ZONE_BASIC =
                       ClickShotZone(courtPos, req.shotData.SHOT_DISTANCE)
         /\ req.shotData.PLAYER_NAME = selectedPlayer
         /\ req.shotData.SHOT_TYPE \in {"3PT Field Goal", "2PT Field Goal"}
         /\ req.shotData.SHOT_TYPE = "3PT Field Goal"
              <=> req.shotData.SHOT_ZONE_BASIC \in ThreePointZones
         /\ req.shotData.SHOT_TYPE = "3PT Field Goal"
              <=> SqrtGt(req.shotData.SHOT_DISTANCE, Frac(2375, 100))]_vars

\* two requests in flight, a corner three for one player and a mid-range
\* two at distance 23.7 for another, and the selection has moved on since
C16_Witness ==
  \E r1, r2 \in pending :
    /\ r1.id = 1 /\ r2.id = 2
    /\ r1.shotData.LOC_X = Num(250) /\ r1.shotData.LOC_Y = Num(50)
    /\ r1.shotData.SHOT_ZONE_BASIC = "Right Corner 3"
    /\ r1.shotData.SHOT_TYPE = "3PT Field Goal"
    /\ r2.shotData.LOC_X = Num(0) /\ r2.shotData.LOC_Y = Num(317)
    /\ r2.shotData.SHOT_ZONE_BASIC = "Mid-Range"
    /\ r2.shotData.SHOT_TYPE = "2PT Field Goal"
    /\ r1.shotData.PLAYER_NAME # r2.shotData.PLAYER_NAME
    /\ selectedPlayer = r2.shotData.PLAYER_NAME

---------------------------------------------------------------------------
(* Properties of the heatmap render pass.                                  *)

\* the calls of the last pass that change pixels of the given target
DrawingCallsOn(target) ==
  SelectSeq(hLast.calls, LAMBDA c : c.target = target /\ c.call \in DrawingCalls)

CallNames(calls) == [i \in 1..Len(calls) |-> calls[i].call]

\* the last pass found the canvas and its 2D context
PassDrew == hLast # Null /\ hLast.env.canvas /\ hLast.env.ctx

\* the container had zero width or zero height when the last pass ran
ZeroSized == hLast.env.clientWidth = 0 \/ hLast.env.clientHeight = 0

\* the rectangle the last pass cleared covers the whole bitmap
ClearCovered ==
  /\ hLast.env.clientWidth * hLast.env.devicePixelRatio >= hCanvas.width
  /\ hLast.env.clientHeight * hLast.env.devicePixelRatio >= hCanvas.height

C10_SkipsTheDraw ==
  (hLast # Null /\ (~hLast.env.canvas \/ ~hLast.env.ctx \/ ZeroSized)) =>
    /\ \A i \in 1..Len(hLast.calls) : hLast.calls[i].call \notin {"fill", "drawImage"}
    /\ ~hLast.threw

\* C10, amended: when the canvas or its 2D context is unavailable the pass
\* returns before any call and leaves the canvas as it was.  When the
\* container has zero width or zero height the pass does not return early: it
\* clears a rectangle of zero area, fills one splat for each point into the
\* offscreen buffer and issues the composite into a destination of zero area,
\* which paints nothing on the visible surface.  In neither case does the
\* pass throw.
C10_UnavailableOrZeroSized ==
  hLast # Null =>
    /\ (~hLast.env.canvas \/ ~hLast.env.ctx) =>
         /\ hLast.calls = <<>>
         /\ hCanvas = hLast.before
         /\ ~hLast.threw
    /\ (PassDrew /\ ZeroSized) =>
         /\ ~hLast.threw
         /\ hCanvas.surface \subseteq hLast.before.surface
         /\ LET visible == DrawingCallsOn("visible")
            IN  /\ visible[1].call = "clearRect"
                /\ visible[1].args[1] * visible[1].args[2] = 0
                /\ hLast.env.offCtx =>
                     /\ Len(DrawingCallsOn("offscreen")) = Len(hLast.props.data)
                     /\ Len(visible) = 2
                     /\ visible[2].call = "drawImage"
                     /\ visible[2].args[1] * visible[2].args[2] = 0

\* a pass over a container of zero width with two points to draw and splats
\* on the surface: two fills into the offscreen buffer, the composite issued,
\* the surface as it was
C10_Witness ==
  /\ PassDrew /\ hLast.env.offCtx
  /\ hLast.env.clientWidth = 0
  /\ Len(hLast.props.data) = 2
  /\ Len(DrawingCallsOn("offscreen")) = 2
  /\ CallNames(DrawingCallsOn("visible")) = <<"clearRect", "drawImage">>
  /\ hCanvas.surface # {}
  /\ hCanvas.surface = hLast.before.surface
  /\ ~hLast.threw

\* C13 as stated: a render pass is idempotent: run again with the same props,
\* point list, container size and device pixel ratio, it issues the same
\* sequence of drawing operations and leaves the canvas size, the transform
\* and the pixels as the run before left them.
C13_RenderPassIdempotent ==
  (hLast # Null /\ hLast.repeat) =>
    /\ hLast.calls = hLast.callsBefore
    /\ hCanvas.width = hLast.before.width
    /\ hCanvas.height = hLast.before.height
    /\ hCanvas.transform = hLast.before.transform
    /\ hCanvas.surface = hLast.before.surface
    /\ hCanvas.bleed = hLast.before.bleed

---------------------------------------------------------------------------
(* The inputs of the coordinate mapper.                                    *)

\* bounds of the generic surfaces and of the court grid
MaxW == 8
MaxH == 8
MaxCourtX == 95
MaxCourtY == 51

\* court extents in feet: half court and full court
FeetConventions == {<<47, 50>>, <<94, 50>>}

SmallDimensions ==
  {CourtDimensions(w, h, f[1], f[2]) : w \in 1..MaxW, h \in 1..MaxH, f \in FeetConventions}

\* every whole pixel of a surface, corners and edges included
Pixels(dimensions) ==
  {Pos(Num(sx), Num(sy)) : sx \in 0..dimensions.width.n, sy \in 0..dimensions.height.n}

\* the positions of a surface on a grid of GridN x GridN cells (pointer
\* positions need not be whole pixels)
GridN == 20

GridPositions(dimensions) ==
  {Pos(Mul(dimensions.width, Frac(i, GridN)), Mul(dimensions.height, Frac(j, GridN))) :
     i \in 0..GridN, j \in 0..GridN}

\* distances from a basket anchor, in feet, at and next to the zone
\* thresholds, on an axis and on the 3-4-5 diagonal
Offsets ==
  {Frac(k, 100) : k \in {1, 480, 640, 800, 801, 960, 1280, 1425, 1600, 1601,
                         1900, 2375, 2376}}

CourtXs ==
  {Num(i) : i \in -1..MaxCourtX}
    \cup {Add(Num(84), o) : o \in Offsets} \cup {Sub(Num(84), o) : o \in Offsets}

CourtYs ==
  {Num(j) : j \in -1..MaxCourtY}
    \cup {Add(Num(25), o) : o \in Offsets} \cup {Sub(Num(25), o) : o \in Offsets}

CourtDimensionsSet ==
  {DEFAULT_COURT_DIMENSIONS, ClickDimensions, CourtDimensions(800, 400, 47, 50)}

ScreenDimensionsSet ==
  {ClickDimensions, DEFAULT_COURT_DIMENSIONS, CourtDimensions(CLICK_WIDTH, CLICK_HEIGHT, 94, 50)}

ScreenInput(p, d) == [space |-> "screen", pos |-> p, dims |-> d]

CourtInput(p, d) == [space |-> "court", pos |-> p, dims |-> d]

---------------------------------------------------------------------------
(* The coordinate mapper as a state machine: an input is drawn, and the    *)
(* functions are applied to it; mOp lists the functions applied and mOut   *)
(* their results.  courtToScreenCoordinates also applies to the result of  *)
(* screenToCourtCoordinates (the reverse direction of a click).            *)

MapperInit ==
  /\ \/ \E d \in SmallDimensions : \E p \in Pixels(d) : mIn = ScreenInput(p, d)
     \/ \E d \in ScreenDimensionsSet : \E p \in GridPositions(d) : mIn = ScreenInput(p, d)
     \/ \E d \in CourtDimensionsSet : \E x \in CourtXs, y \in CourtYs :
          mIn = CourtInput(Pos(x, y), d)
  /\ mOp = <<>>
  /\ mOut = <<>>
  /\ AppInit
  /\ HeatmapIdle

\* every whole pixel of the click surface
PixelInit ==
  /\ \E p \in Pixels(ClickDimensions) : mIn = ScreenInput(p, ClickDimensions)
  /\ mOp = <<>>
  /\ mOut = <<>>
  /\ AppInit
  /\ HeatmapIdle

ScreenToCourt ==
  /\ mIn # Null
  /\ mOp = <<>>
  /\ mIn.space = "screen"
  /\ mOp' = <<"screenToCourt">>
  /\ mOut' = <<screenToCourtCoordinates(mIn.pos, mIn.dims)>>
  /\ UNCHANGED <<mIn, appVars, predictorVars, requestVars, heatVars>>

CourtToScreen ==
  /\ mIn # Null
  /\ \/ mOp = <<>> /\ mIn.space = "court"
     \/ mOp = <<"screenToCourt">>
  /\ LET courtPos == IF mOp = <<>> THEN mIn.pos ELSE mOut[1]
     IN  /\ mOp' = Append(mOp, "courtToScreen")
         /\ mOut' = Append(mOut, courtToScreenCoordinates(courtPos, mIn.dims))
  /\ UNCHANGED <<mIn, appVars, predictorVars, requestVars, heatVars>>

IsWithinCourtBounds ==
  /\ mIn # Null
  /\ mOp = <<>>
  /\ mIn.space = "court"
  /\ mOp' = <<"isWithinCourtBounds">>
  /\ mOut' = <<isWithinCourtBounds(mIn.pos, mIn.dims)>>
  /\ UNCHANGED <<mIn, appVars, predictorVars, requestVars, heatVars>>

DistanceFromBasket ==
  /\ mIn # Null
  /\ mOp = <<>>
  /\ mIn.space = "court"
  /\ \E basketSide \in BasketSides :
       /\ mOp' = <<"distanceFromBasket">>
       /\ mOut' = <<[basketSide |-> basketSide,
                     distance |-> distanceFromBasket(mIn.pos, basketSide)]>>
  /\ UNCHANGED <<mIn, appVars, predictorVars, requestVars, heatVars>>

GetShotZone ==
  /\ mIn # Null
  /\ mOp = <<>>
  /\ mIn.space = "court"
  /\ mOp' = <<"getShotZone">>
  /\ mOut' = <<getShotZone(mIn.pos)>>
  /\ UNCHANGED <<mIn, appVars, predictorVars, requestVars, heatVars>>

MapperNext ==
  \/ ScreenToCourt
  \/ CourtToScreen
  \/ IsWithinCourtBounds
  \/ DistanceFromBasket
  \/ GetShotZone

SpecMapper == MapperInit /\ [][MapperNext]_vars

\* a click on the court surface and its reverse direction, for every pixel
PixelNext ==
  \/ ScreenToCourt
  \/ CourtToScreen

SpecPixel == PixelInit /\ [][PixelNext]_vars

---------------------------------------------------------------------------
(* The splat style as a state machine: the props and a weight are drawn,   *)
(* and the band or the style of the splat is computed.                     *)

\* the weights of a point; one that is absent
Weights ==
  {Frac(-1, 2), Num(0), Frac(5, 100), Frac(1, 10), Frac(25, 100), Frac(3, 10),
   Frac(35, 100), Frac(4, 10), Frac(45, 100), Frac(1, 2), Frac(55, 100),
   Frac(65, 100), Frac(7, 10), Frac(85, 100), Num(1), Frac(3, 2)}

LeagueAverages == {Undefined, Frac(45, 100), Frac(3, 10)}

LeagueBands ==
  {Undefined, Frac(-1, 10), Num(0), Frac(1, 100), Frac(5, 100), Frac(1, 10),
   Frac(2, 10), Frac(4, 10), Frac(9, 10)}

MaxOpacities == {DEFAULT_MAX_OPACITY, Frac(9, 10), MIN_ALPHA, Frac(1, 10), Num(1)}

Radii == {DEFAULT_RADIUS, Num(28), Num(4), Num(0), Num(-5), Num(100)}

SplatInputs ==
  [space : {"style"},
   weight : Weights \cup {Undefined},
   leagueAverage : LeagueAverages,
   leagueBand : LeagueBands,
   maxOpacity : MaxOpacities,
   radius : Radii]

SplatInit ==
  /\ mIn \in SplatInputs
  /\ mOp = <<>>
  /\ mOut = <<>>
  /\ AppInit
  /\ HeatmapIdle

BandOf ==
  /\ mOp = <<>>
  /\ mIn.space = "style"
  /\ mOp' = <<"band">>
  /\ mOut' = <<band(mIn.leagueBand)>>
  /\ UNCHANGED <<mIn, appVars, predictorVars, requestVars, heatVars>>

StyleOf ==
  /\ mOp = <<>>
  /\ mIn.space = "style"
  /\ mOp' = <<"style">>
  /\ mOut' = <<SplatStyle(mIn.weight, mIn.leagueAverage, mIn.leagueBand,
                          mIn.maxOpacity, mIn.radius)>>
  /\ UNCHANGED <<mIn, appVars, predictorVars, requestVars, heatVars>>

SplatNext ==
  \/ BandOf
  \/ StyleOf

SpecSplat == SplatInit /\ [][SplatNext]_vars

---------------------------------------------------------------------------
(* Properties of the splat style.                                          *)

\* C11: colour and opacity saturate: a weight of avg + band or more gets the
\* upper end of the ramp and alpha maxOpacity, a weight of avg - band or less
\* the lower end of the ramp and alpha maxOpacity, whatever avg and band.
C11_ColourAndAlphaSaturate ==
  (mOp = <<"style">> /\ mIn.weight # Undefined) =>
    LET average == avg(mIn.leagueAverage)
        tolerance == band(mIn.leagueBand)
    IN  /\ Leq(Add(average, tolerance), mIn.weight) =>
             /\ mOut[1].color = RAMP_HIGH
             /\ mOut[1].alpha = mIn.maxOpacity
        /\ Leq(mIn.weight, Sub(average, tolerance)) =>
             /\ mOut[1].color = RAMP_LOW
             /\ mOut[1].alpha = mIn.maxOpacity

\* average 0.45, band 0.2: the weight 0.85 = avg + 2 * band is styled as
\* 0.65 = avg + band is
C11_Witness ==
  /\ mOp = <<"style">>
  /\ mIn.leagueAverage = Frac(45, 100)
  /\ mIn.leagueBand = Frac(2, 10)
  /\ mIn.weight = Frac(85, 100)
  /\ mOut[1].color = RAMP_HIGH
  /\ mOut[1].color = colorScale(Frac(65, 100), Frac(45, 100), Frac(2, 10))
  /\ mOut[1].alpha = mIn.maxOpacity

\* C12: the band is within [0.05, 0.4]: 0.2 when leagueBand is absent,
\* leagueBand when that is within [0.05, 0.4], 0.05 when it is smaller, 0.4
\* when it is larger; it is never 0, so the division by it is defined.
C12_BandWithinLimits ==
  mOp = <<"band">> =>
    LET b == mOut[1]
        given == mIn.leagueBand
    IN  /\ Leq(Frac(5, 100), b) /\ Leq(b, Frac(4, 10))
        /\ b.n # 0 /\ b.d # 0
        /\ given = Undefined => b = Frac(2, 10)
        /\ given # Undefined =>
             /\ (Leq(Frac(5, 100), given) /\ Leq(given, Frac(4, 10))) => b = given
             /\ Lt(given, Frac(5, 100)) => b = Frac(5, 100)
             /\ Lt(Frac(4, 10), given) => b = Frac(4, 10)

\* a leagueBand of 0 gives the band 0.05
C12_Witness ==
  /\ mOp = <<"band">>
  /\ mIn.leagueBand = Num(0)
  /\ mOut[1] = Frac(5, 100)

\* |weight - avg| of a style input, an absent weight standing for avg
DeltaOf(weight, leagueAverage) ==
  IF weight = Undefined THEN Num(0)
  ELSE MathAbs(Sub(weight, avg(leagueAverage)))

\* C19: the splat alpha is the linear map of |weight - avg| from [0, band]
\* onto [0.18, maxOpacity], clamped; for maxOpacity >= 0.18 and every weight,
\* alpha lies in [0.18, maxOpacity], equals 0.18 when weight = avg, never
\* decreases as |weight - avg| grows, and equals maxOpacity whenever
\* |weight - avg| >= band.
C19_AlphaClampedLinear ==
  mOp = <<"style">> =>
    LET tolerance == band(mIn.leagueBand)
        delta == DeltaOf(mIn.weight, mIn.leagueAverage)
        alpha == mOut[1].alpha
        span == Sub(mIn.maxOpacity, MIN_ALPHA)
    IN  /\ Leq(delta, tolerance) =>
             alpha = Add(MIN_ALPHA, Mul(span, Div(delta, tolerance)))
        /\ Leq(tolerance, delta) => alpha = mIn.maxOpacity
        /\ Leq(MIN_ALPHA, mIn.maxOpacity) =>
             /\ Leq(MIN_ALPHA, alpha) /\ Leq(alpha, mIn.maxOpacity)
             /\ delta = Num(0) => alpha = MIN_ALPHA
             /\ \A w \in Weights :
                  Leq(delta, DeltaOf(w, mIn.leagueAverage)) =>
                    Leq(alpha, SplatStyle(w, mIn.leagueAverage, mIn.leagueBand,
                                          mIn.maxOpacity, mIn.radius).alpha)

\* average 0.45, band 0.2, maxOpacity 0.9: the weight 0.55, half a band
\* above the average, has the alpha 0.54, halfway between 0.18 and 0.9
C19_Witness ==
  /\ mOp = <<"style">>
  /\ mIn.leagueAverage = Frac(45, 100)
  /\ mIn.leagueBand = Frac(2, 10)
  /\ mIn.maxOpacity = Frac(9, 10)
  /\ mIn.weight = Frac(55, 100)
  /\ mOut[1].alpha = Frac(54, 100)

\* C20: the splat radius of every drawn point equals
\* max(8, baseRadius * (0.9 + 1.2 * |weight - avg| / band)): it is never
\* smaller than 8 for any base radius, weight and band, and it never
\* decreases as |weight - avg| grows.
C20_RadiusFlooredAndMonotone ==
  mOp = <<"style">> =>
    LET tolerance == band(mIn.leagueBand)
        delta == DeltaOf(mIn.weight, mIn.leagueAverage)
        scaled == Mul(mIn.radius,
                      Add(Frac(9, 10), Div(Mul(Frac(12, 10), delta), tolerance)))
        r == mOut[1].r
    IN  /\ r = (IF Lt(scaled, Num(8)) THEN Num(8) ELSE scaled)
        /\ Leq(Num(8), r)
        /\ \A w \in Weights :
             Leq(delta, DeltaOf(w, mIn.leagueAverage)) =>
               Leq(r, SplatStyle(w, mIn.leagueAverage, mIn.leagueBand,
                                 mIn.maxOpacity, mIn.radius).r)

\* base radius 28, average 0.45 and band 0.2: the weight 0.65, one band above
\* the average, has the radius 28 * 2.1 = 58.8
C20_Witness ==
  /\ mOp = <<"style">>
  /\ mIn.radius = Num(28)
  /\ mIn.leagueAverage = Frac(45, 100)
  /\ mIn.leagueBand = Frac(2, 10)
  /\ mIn.weight = Frac(65, 100)
  /\ mOut[1].r = Frac(588, 10)

\* C21: a heatmap point with no weight is drawn exactly like the same point
\* with weight = leagueAverage: it gets the colour at the midpoint of the
\* scale's domain, the minimum alpha 0.18 and the radius
\* max(8, 0.9 * baseRadius).
C21_AbsentWeightIsAverage ==
  (mOp = <<"style">> /\ mIn.weight = Undefined) =>
    LET average == avg(mIn.leagueAverage)
        atAverage == SplatStyle(average, mIn.leagueAverage, mIn.leagueBand,
                                mIn.maxOpacity, mIn.radius)
        scaled == Mul(Frac(9, 10), mIn.radius)
    IN  /\ mOut[1] = atAverage
        /\ mOut[1].color = Div(Add(RAMP_LOW, RAMP_HIGH), Num(2))
        /\ mOut[1].alpha = Frac(18, 100)
        /\ mOut[1].r = (IF Leq(Num(8), scaled) THEN scaled ELSE Num(8))

\* a point without weight under average 0.3, band 0.1 and base radius 28:
\* the middle of the ramp, alpha 0.18 and radius 25.2
C21_Witness ==
  /\ mOp = <<"style">>
  /\ mIn.weight = Undefined
  /\ mIn.leagueAverage = Frac(3, 10)
  /\ mIn.leagueBand = Frac(1, 10)
  /\ mIn.radius = Num(28)
  /\ mOut[1].prob = Frac(3, 10)
  /\ mOut[1].color = Half
  /\ mOut[1].alpha = MIN_ALPHA
  /\ mOut[1].r = Frac(252, 10)

---------------------------------------------------------------------------
(* The mapper and the render pass on any finite input: dimensions that     *)
(* are zero or negative, positions off the surface, and a heatmap over a   *)
(* court without length.                                                   *)

AnyDimensions ==
  {CourtDimensions(w, h, l, cw) :
     w \in {0, 1, CLICK_WIDTH, -4}, h \in {0, 1, CLICK_HEIGHT},
     l \in {0, CLICK_LENGTH_FEET, 94}, cw \in {0, CLICK_WIDTH_FEET}}

AnyPositions ==
  {Pos(x, y) : x \in {Num(-3), Num(0), Half, Num(7), Num(CLICK_WIDTH)},
               y \in {Num(-3), Num(0), Half, Num(7), Num(CLICK_WIDTH)}}

AnyInputInit ==
  /\ \/ /\ \E d \in AnyDimensions, p \in AnyPositions :
             mIn \in {ScreenInput(p, d), CourtInput(p, d)}
        /\ HeatmapIdle
     \/ /\ mIn = Null
        /\ hProps \in HeatmapPropsAny
        /\ hEnv \in HeatmapEnvSet
        /\ hCanvas = [width |-> hProps.width, height |-> hProps.height,
                      transform |-> 1, surface |-> {}, bleed |-> 0]
        /\ hLast = Null
  /\ mOp = <<>>
  /\ mOut = <<>>
  /\ AppInit

AnyInputNext ==
  \/ MapperNext
  \/ HeatmapNext

SpecAnyInput == AnyInputInit /\ [][AnyInputNext]_vars

ZoneLabels == {"Restricted Area", "Paint", "Mid-range", "Three-point"}

\* C15 as stated: the mapper has no failure outcome: for every finite
\* position and every finite dimensions descriptor screenToCourt and
\* courtToScreen return finite numbers, isWithinCourtBounds a boolean,
\* distanceFromBasket a finite number and getShotZone one of the zone
\* labels; and the render pass does not fail for any list of points with
\* finite coordinates and weights.
C15_NoFailureOutcome ==
  /\ mOp = <<"screenToCourt">> =>
       IsFinite(mOut[1].x) /\ IsFinite(mOut[1].y)
  /\ mOp = <<"courtToScreen">> =>
       IsFinite(mOut[1].x) /\ IsFinite(mOut[1].y)
  /\ mOp = <<"isWithinCourtBounds">> => mOut[1] \in BOOLEAN
  /\ mOp = <<"distanceFromBasket">> => IsFinite(mOut[1].distance.sqrtOf)
  /\ mOp = <<"getShotZone">> => mOut[1] \in ZoneLabels
  /\ hLast # Null => ~hLast.threw

\* The extent of the failure: no function of the mapper throws.  For a
\* finite position screenToCourt returns integers when width and height are
\* not zero, and
\* a y that is not finite when width is zero, an x that is not finite when
\* height is zero; courtToScreen returns finite numbers when courtLengthFeet
\* and courtWidthFeet are not zero, and an x that is not finite when
\* courtLengthFeet is zero, a y that is not finite when courtWidthFeet is
\* zero; isWithinCourtBounds returns a boolean, distanceFromBasket a finite
\* number and getShotZone a zone label, whatever the dimensions.  The render
\* pass over points with finite coordinates and weights throws exactly when
\* it draws a point in court space with a courtLengthFeet or a
\* courtWidthFeet of zero (the centre of the splat is not finite and
\* createRadialGradient throws).
DefinedUnlessZeroDivisor ==
  /\ mOp = <<"screenToCourt">> =>
       /\ (mIn.dims.width.n # 0 /\ mIn.dims.height.n # 0) =>
            IsInteger(mOut[1].x) /\ IsInteger(mOut[1].y)
       /\ mIn.dims.width.n = 0 => ~IsFinite(mOut[1].y)
       /\ mIn.dims.height.n = 0 => ~IsFinite(mOut[1].x)
  /\ mOp = <<"courtToScreen">> =>
       /\ (mIn.dims.courtLengthFeet.n # 0 /\ mIn.dims.courtWidthFeet.n # 0) =>
            IsFinite(mOut[1].x) /\ IsFinite(mOut[1].y)
       /\ mIn.dims.courtLengthFeet.n = 0 => ~IsFinite(mOut[1].x)
       /\ mIn.dims.courtWidthFeet.n = 0 => ~IsFinite(mOut[1].y)
  /\ mOp = <<"isWithinCourtBounds">> => mOut[1] \in BOOLEAN
  /\ mOp = <<"distanceFromBasket">> =>
       IsFinite(mOut[1].distance.sqrtOf) /\ Leq(Num(0), mOut[1].distance.sqrtOf)
  /\ mOp = <<"getShotZone">> => mOut[1] \in ZoneLabels
  /\ hLast # Null =>
       (hLast.threw <=>
          /\ hLast.env.canvas /\ hLast.env.ctx /\ hLast.env.offCtx
          /\ hLast.props.coordinateSpace = "court"
          /\ \/ hLast.props.courtDimensions.courtLengthFeet.n = 0
             \/ hLast.props.courtDimensions.courtWidthFeet.n = 0
          /\ hLast.props.data # <<>>)

\* on a surface of width 0 the screen position (7, 7) has the court y
\* Infinity, and no failure
InfinityOnZeroWidth ==
  /\ mOp = <<"screenToCourt">>
  /\ mIn.dims.width = Num(0) /\ mIn.dims.height = Num(CLICK_HEIGHT)
  /\ mIn.pos = Pos(Num(7), Num(7))
  /\ mOut[1].y = Infinity
  /\ IsInteger(mOut[1].x)

---------------------------------------------------------------------------
(* Properties of the coordinate mapper.                                    *)

\* other court extents and pixel boxes a descriptor could carry
OtherFeet == FeetConventions \cup {<<28, 15>>, <<1, 1>>}

OtherPixelBoxes == {<<500, 470>>, <<800, 400>>, <<625, 588>>, <<1, 1>>}

MaxK == 3

\* C1: screenToCourt swaps the axes and remaps to the analytics convention:
\* the result x is (sy/height - 0.5)*500 rounded to the nearest integer and
\* the result y is 50 + (sx/width)*350 rounded to the nearest integer, and
\* the result is the same for every courtLengthFeet and courtWidthFeet.
C1_ScreenToCourtSwapsAndRemaps ==
  (Len(mOp) >= 1 /\ mOp[1] = "screenToCourt") =>
    LET sx == mIn.pos.x
        sy == mIn.pos.y
        exactX == Mul(Sub(Div(sy, mIn.dims.height), Half), Num(500))
        exactY == Add(Num(50), Mul(Div(sx, mIn.dims.width), Num(350)))
        r == mOut[1]
    IN  /\ IsInteger(r.x) /\ IsInteger(r.y)
        /\ Leq(MathAbs(Sub(r.x, exactX)), Half)
        /\ Leq(MathAbs(Sub(r.y, exactY)), Half)
        /\ \A f \in OtherFeet :
             screenToCourtCoordinates(mIn.pos,
               [mIn.dims EXCEPT !.courtLengthFeet = Num(f[1]),
                                !.courtWidthFeet = Num(f[2])]) = r

\* C1 witness: on an 8 x 8 surface the position (2, 1) maps to (-187, 138):
\* x comes from the row (1/8 - 1/2)*500 = -187.5, y from the column
\* 50 + (2/8)*350 = 137.5
C1_Witness ==
  /\ mOp = <<"screenToCourt">>
  /\ mIn.dims.width = Num(8) /\ mIn.dims.height = Num(8)
  /\ mIn.pos = Pos(Num(2), Num(1))
  /\ mOut[1] = Pos(Num(-187), Num(138))

\* C3: getShotZone classifies a court position only by its distance d to the
\* right basket anchor (84, 25): 'Restricted Area' iff d <= 8, 'Paint' iff
\* 8 < d <= 16, 'Mid-range' iff 16 < d <= 23.75, 'Three-point' iff d > 23.75,
\* and every position gets exactly one of the four labels.
C3_GetShotZoneThresholds ==
  (mOp = <<"getShotZone">>) =>
    LET dx == Sub(mIn.pos.x, Num(84))
        dy == Sub(mIn.pos.y, Num(25))
        dd == Add(Mul(dx, dx), Mul(dy, dy))
        t1 == Num(8 * 8)
        t2 == Num(16 * 16)
        t3 == Frac(2375 * 2375, 100 * 100)
        zone == mOut[1]
    IN  /\ zone \in {"Restricted Area", "Paint", "Mid-range", "Three-point"}
        /\ (zone = "Restricted Area") <=> Leq(dd, t1)
        /\ (zone = "Paint") <=> (Lt(t1, dd) /\ Leq(dd, t2))
        /\ (zone = "Mid-range") <=> (Lt(t2, dd) /\ Leq(dd, t3))
        /\ (zone = "Three-point") <=> Lt(t3, dd)

\* C3 witness: the position (69.75, 44) is at distance exactly 23.75 from
\* (84, 25) (14.25 and 19 are 3*4.75 and 4*4.75) and is 'Mid-range'
C3_Witness ==
  /\ mOp = <<"getShotZone">>
  /\ mIn.pos = Pos(Frac(6975, 100), Num(44))
  /\ mOut[1] = "Mid-range"

\* C5: isWithinCourtBounds(p, dims) is true exactly when
\* 0 <= p.x <= courtLengthFeet and 0 <= p.y <= courtWidthFeet, both ends
\* inclusive, and does not depend on the pixel width and height.
C5_IsWithinCourtBoundsInclusive ==
  (mOp = <<"isWithinCourtBounds">>) =>
    LET x == mIn.pos.x
        y == mIn.pos.y
        l == mIn.dims.courtLengthFeet
        w == mIn.dims.courtWidthFeet
    IN  /\ mOut[1] <=> /\ x.n >= 0 /\ x.n * l.d <= l.n * x.d
                       /\ y.n >= 0 /\ y.n * w.d <= w.n * y.d
        /\ (x.n < 0 \/ y.n < 0 \/ Lt(l, x) \/ Lt(w, y)) => ~mOut[1]
        /\ (mIn.pos = Pos(Num(0), Num(0)) \/ mIn.pos = Pos(l, w)) => mOut[1]
        /\ \A b \in OtherPixelBoxes :
             isWithinCourtBounds(mIn.pos,
               [mIn.dims EXCEPT !.width = Num(b[1]), !.height = Num(b[2])]) = mOut[1]

\* C5 witness: the far corner (courtLengthFeet, courtWidthFeet) is within bounds
C5_Witness ==
  /\ mOp = <<"isWithinCourtBounds">>
  /\ mIn.pos = Pos(mIn.dims.courtLengthFeet, mIn.dims.courtWidthFeet)
  /\ mOut[1] = TRUE

\* C6: courtToScreen is an origin-anchored linear map on each axis, with no
\* axis swap: courtToScreen((x, y)) = (x*width/courtLengthFeet,
\* y*height/courtWidthFeet); scaling the court position by k scales the
\* screen output by k; the screen x depends only on the court x and the
\* screen y only on the court y.
C6_CourtToScreenLinear ==
  (Len(mOp) >= 1 /\ mOp[Len(mOp)] = "courtToScreen") =>
    LET courtPos == IF Len(mOp) = 1 THEN mIn.pos ELSE mOut[1]
        screen == mOut[Len(mOut)]
        d == mIn.dims
    IN  /\ screen.x = Div(Mul(courtPos.x, d.width), d.courtLengthFeet)
        /\ screen.y = Div(Mul(courtPos.y, d.height), d.courtWidthFeet)
        /\ (courtPos = Pos(Num(0), Num(0))) => (screen = Pos(Num(0), Num(0)))
        /\ \A k \in 0..MaxK :
             courtToScreenCoordinates(
               Pos(Mul(Num(k), courtPos.x), Mul(Num(k), courtPos.y)), d)
               = Pos(Mul(Num(k), screen.x), Mul(Num(k), screen.y))
        /\ \A other \in {Num(0), Num(25), Frac(9201, 100)} :
             /\ courtToScreenCoordinates(Pos(courtPos.x, other), d).x = screen.x
             /\ courtToScreenCoordinates(Pos(other, courtPos.y), d).y = screen.y

\* C6 witness: on the default 800 x 400 surface of a 94 x 50 court the
\* position (47, 44) maps to (400, 352)
C6_Witness ==
  /\ mOp = <<"courtToScreen">>
  /\ mIn.dims = DEFAULT_COURT_DIMENSIONS
  /\ mIn.pos = Pos(Num(47), Num(44))
  /\ mOut[1] = Pos(Num(400), Num(352))

\* C7: courtToScreen is not an inverse of screenToCourt: on the 500 x 470
\* surface with courtLengthFeet = 47 and courtWidthFeet = 50, for every
\* in-canvas pixel p, courtToScreen(screenToCourt(p)) differs from p.
C7_ReverseIsNotInverse ==
  (mOp = <<"screenToCourt", "courtToScreen">> /\ mIn.dims = ClickDimensions) =>
    mOut[2] # mIn.pos

\* C7 witness: the pixel (250, 235) maps to the analytics position (0, 225),
\* which the reverse direction maps to the pixel (0, 2115)
C7_Witness ==
  /\ mOp = <<"screenToCourt", "courtToScreen">>
  /\ mIn.dims = ClickDimensions
  /\ mIn.pos = Pos(Num(250), Num(235))
  /\ mOut[1] = Pos(Num(0), Num(225))
  /\ mOut[2] = Pos(Num(0), Num(2115))

\* C8: distanceFromBasket is the Euclidean distance to the anchor (10, 25)
\* for side 'left' and (84, 25) for side 'right', the default: it is 0
\* exactly at the chosen anchor and positive everywhere else.
C8_DistanceFromBasketAnchors ==
  (mOp = <<"distanceFromBasket">>) =>
    LET side == mOut[1].basketSide
        anchor == IF side = "left" THEN Pos(Num(10), Num(25)) ELSE Pos(Num(84), Num(25))
        dx == Sub(mIn.pos.x, anchor.x)
        dy == Sub(mIn.pos.y, anchor.y)
        dd == mOut[1].distance.sqrtOf
    IN  /\ dd = Add(Mul(dx, dx), Mul(dy, dy))
        /\ (dd = Num(0)) <=> (mIn.pos = anchor)
        /\ (mIn.pos # anchor) => Lt(Num(0), dd)

\* C8 witness: with the side omitted the distance at (84, 25) is 0
C8_Witness ==
  /\ mOp = <<"distanceFromBasket">>
  /\ mOut[1].basketSide = "undefined"
  /\ mIn.pos = Pos(Num(84), Num(25))
  /\ mOut[1].distance = MathSqrt(Num(0))

InCanvas(pos, dimensions) ==
  /\ Leq(Num(0), pos.x) /\ Leq(pos.x, dimensions.width)
  /\ Leq(Num(0), pos.y) /\ Leq(pos.y, dimensions.height)

\* C17: for every in-canvas screen position (0 <= sx <= width,
\* 0 <= sy <= height, width and height positive) screenToCourt returns an
\* integer x with -250 <= x <= 250 and an integer y with 50 <= y <= 400.
C17_InCanvasRange ==
  (Len(mOp) >= 1 /\ mOp[1] = "screenToCourt"
     /\ Lt(Num(0), mIn.dims.width) /\ Lt(Num(0), mIn.dims.height)
     /\ InCanvas(mIn.pos, mIn.dims)) =>
    /\ IsInteger(mOut[1].x) /\ IsInteger(mOut[1].y)
    /\ Leq(Num(-250), mOut[1].x) /\ Leq(mOut[1].x, Num(250))
    /\ Leq(Num(50), mOut[1].y) /\ Leq(mOut[1].y, Num(400))

\* C17 witness: the far corner (7, 5) of a 7 x 5 surface maps to the corner
\* (250, 400) of the range
C17_Witness ==
  /\ mOp = <<"screenToCourt">>
  /\ mIn.dims.width = Num(7) /\ mIn.dims.height = Num(5)
  /\ mIn.pos = Pos(Num(7), Num(5))
  /\ mOut[1] = Pos(Num(250), Num(400))

\* the x output for the row mirrored about the horizontal centre line
MirrorRowX ==
  screenToCourtCoordinates(Pos(mIn.pos.x, Sub(mIn.dims.height, mIn.pos.y)), mIn.dims).x

\* whether the row of the input is a pixel row of the surface of a
\* screenToCourt call
PixelRowMapped ==
  /\ Len(mOp) >= 1 /\ mOp[1] = "screenToCourt"
  /\ Lt(Num(0), mIn.dims.height)
  /\ IsInteger(mIn.pos.y)
  /\ Leq(Num(0), mIn.pos.y) /\ Leq(mIn.pos.y, mIn.dims.height)

\* whether (sy/height - 0.5)*500 lies halfway between two integers
RowAtTie ==
  LET exactX == Mul(Sub(Div(mIn.pos.y, mIn.dims.height), Half), Num(500))
  IN  IsInteger(Mul(Num(2), exactX)) /\ ~IsInteger(exactX)

\* C18 as stated: screenToCourt is symmetric about the horizontal centre
\* line of the surface: for every positive height and every pixel row sy
\* with 0 <= sy <= height the x output for row sy is the negation of the x
\* output for row height - sy, and row height/2 maps to x = 0.
C18_SymmetricAboutCentreLine ==
  PixelRowMapped =>
    /\ mOut[1].x = Neg(MirrorRowX)
    /\ Mul(Num(2), mIn.pos.y) = mIn.dims.height => mOut[1].x = Num(0)

\* C18, amended: for every positive height and every pixel row sy with
\* 0 <= sy <= height, the x output for row sy is the negation of the x
\* output for row height - sy unless (sy/height - 0.5)*500 lies halfway
\* between two integers, where the two outputs add up to -1, 0 or 1; row
\* height/2 maps to x = 0.
C18_SymmetricExceptAtTies ==
  PixelRowMapped =>
    /\ ~RowAtTie => mOut[1].x = Neg(MirrorRowX)
    /\ RowAtTie => Leq(MathAbs(Add(mOut[1].x, MirrorRowX)), Num(1))
    /\ Mul(Num(2), mIn.pos.y) = mIn.dims.height => mOut[1].x = Num(0)

\* C18 witness: on a surface of height 8 row 7 maps to x = 188
\* (187.5 rounded up) and row 1 to x = -187 (-187.5 rounded up)
C18_Witness ==
  /\ mOp = <<"screenToCourt">>
  /\ mIn.dims.width = Num(8) /\ mIn.dims.height = Num(8)
  /\ mIn.pos = Pos(Num(4), Num(7))
  /\ RowAtTie
  /\ mOut[1].x = Num(188)
  /\ MirrorRowX = Num(-187)

---------------------------------------------------------------------------
(* Properties of the placement of the heatmap points.                      *)

\* the splat fills of the last pass, in the order of the data
FillCalls ==
  SelectSeq(hLast.calls, LAMBDA c : c.target = "offscreen" /\ c.call = "fill")

\* C22: for points given in court space the heatmap places each point at
\* (x * drawWidth / courtLengthFeet, y * drawHeight / courtWidthFeet), where
\* drawWidth and drawHeight are the current size of the drawing surface: the
\* pixel width and height carried in the courtDimensions prop never affect
\* the placement; points given in screen space are drawn at their own x and
\* y unchanged.
C22_PlacedOnTheCurrentSurface ==
  (PassDrew /\ hLast.env.offCtx) =>
    LET props == hLast.props
        drawWidth == hLast.env.clientWidth
        drawHeight == hLast.env.clientHeight
    IN  /\ Len(FillCalls) = Len(props.data)
        /\ \A i \in 1..Len(FillCalls) :
             LET p == props.data[i]
                 splat == FillCalls[i].args[1]
             IN  IF props.coordinateSpace = "court"
                   THEN /\ splat.px = Div(Mul(p.x, Num(drawWidth)),
                                          props.courtDimensions.courtLengthFeet)
                        /\ splat.py = Div(Mul(p.y, Num(drawHeight)),
                                          props.courtDimensions.courtWidthFeet)
                        /\ \A box \in OtherPixelBoxes :
                             LET other == Splat(p,
                                            [props EXCEPT
                                               !.courtDimensions.width = Num(box[1]),
                                               !.courtDimensions.height = Num(box[2])],
                                            drawWidth, drawHeight)
                             IN  other.px = splat.px /\ other.py = splat.py
                   ELSE splat.px = p.x /\ splat.py = p.y

\* the point (46, 10) of a 47 x 50 ft court on a surface that is 250 wide
\* while courtDimensions says 500: it is placed at (46 * 250 / 47, 94)
C22_Witness ==
  /\ PassDrew /\ hLast.env.offCtx
  /\ hLast.props.coordinateSpace = "court"
  /\ hLast.props.courtDimensions.width = Num(500)
  /\ hLast.env.clientWidth = 250 /\ hLast.env.clientHeight = 470
  /\ Len(FillCalls) = 1
  /\ hLast.props.data[1].x = Num(46) /\ hLast.props.data[1].y = Num(10)
  /\ FillCalls[1].args[1].px = Frac(11500, 47)
  /\ FillCalls[1].args[1].py = Num(94)

\* ---------------------------------------------------------------------
\* Properties of the point cloud, the requests in flight and the session
\* ---------------------------------------------------------------------

\* a step of the click flow: a click, a response or a failure
ClickFlowStep ==
  <<prediction, loading, error, shotLocation, clicks, pending, resolved>>' #
    <<prediction, loading, error, shotLocation, clicks, pending, resolved>>

\* the lists the generation can return for a player, over every stream
CloudsOfPlayer ==
  [player \in ClickFlowPlayers |->
     {playerHeatmapOf(player, stream) : stream \in RandomStreams}] @@ <<>>

\* C23: the point cloud is independent of the click flow: a click, a
\* response and a failure leave the list as it is, and a list on display is
\* replaced only in a step that changes the selected player, by a list
\* generated whole for the new player (nothing of the old list is kept on)
C23_CloudKeptThroughTheClickFlow ==
  [][/\ ClickFlowStep => playerHeatmap' = playerHeatmap
     /\ (playerHeatmap # Null /\ selectedPlayer' = selectedPlayer) =>
          playerHeatmap' = playerHeatmap
     /\ (playerHeatmap # Null /\ selectedPlayer' # selectedPlayer) =>
          playerHeatmap' \in CloudsOfPlayer[selectedPlayer']]_vars

\* two requests were sent and one failed, one succeeded, for a player
\* selected on a card, and the list is still the one generated for that
\* player
C23_Witness ==
  /\ selectedPlayer = "Nikola Jokic"
  /\ clicks = 2
  /\ Len(resolved) = 2
  /\ ~resolved[1].ok
  /\ resolved[2].ok
  /\ playerHeatmap = playerHeatmapOf("Nikola Jokic", [seed |-> 2, step |-> 3])
  /\ Len(playerHeatmap) = 3 * MaxClusterCount

\* C24: at every moment at which at least one request started by a court
\* click is unresolved the loading flag is true, so that loading is false
\* only when no request is in flight
C24_LoadingWhileInFlight == pending # {} => loading

\* C25: once every request in flight has resolved, the error message is
\* non-null exactly when the request that resolved last failed
C25_ErrorOfTheLastResolution ==
  (pending = {} /\ resolved # <<>>) =>
    (error # NullString <=> ~resolved[Len(resolved)].ok)

\* what holds of the error message whatever the order of the resolutions:
\* with no request in flight it is the failure message if the request that
\* resolved last failed, and it is non-null only if some request has failed
ErrorOfTheLastFailure ==
  (pending = {} /\ resolved # <<>>) =>
    /\ ~resolved[Len(resolved)].ok => error = "Failed to predict shot. Please try again."
    /\ error # NullString => \E i \in 1..Len(resolved) : ~resolved[i].ok

\* C26: a court click while no player is selected sends no request, sets
\* the error to 'Please select a player first' and leaves prediction,
\* loading and shotLocation unchanged (with no player selected the click is
\* the only step the rendered application can take)
C26_ClickWithoutPlayer ==
  [][(~appLoading /\ selectedPlayer = NullString) =>
       /\ error' = "Please select a player first"
       /\ clicks' = clicks
       /\ pending' = pending
       /\ prediction' = prediction
       /\ loading' = loading
       /\ shotLocation' = shotLocation]_vars

\* the court was clicked with no player selected
C26_Witness ==
  /\ ~appLoading
  /\ selectedPlayer = NullString
  /\ error = "Please select a player first"
  /\ clicks = 0
  /\ pending = {}
  /\ prediction = Null
  /\ ~loading
  /\ shotLocation = Null

\* the order of the counters of the session statistics
StreaksOrdered ==
  /\ 0 <= sessionStats.currentStreak
  /\ sessionStats.currentStreak <= sessionStats.bestStreak
  /\ sessionStats.bestStreak <= sessionStats.madeShots
  /\ sessionStats.madeShots <= sessionStats.totalShots

\* C27: after any sequence of updateSessionStats calls from the all-zero
\* statistics, 0 <= currentStreak <= bestStreak <= madeShots <= totalShots;
\* a call never decreases bestStreak or madeShots and adds exactly 1 to
\* totalShots, and a miss sets currentStreak to 0 and leaves bestStreak and
\* madeShots unchanged
C27_SessionCounters ==
  /\ []StreaksOrdered
  /\ [][/\ sessionStats'.bestStreak >= sessionStats.bestStreak
        /\ sessionStats'.madeShots >= sessionStats.madeShots
        /\ sessionStats'.totalShots = sessionStats.totalShots + 1
        /\ ~mIn'.shotMade =>
             /\ sessionStats'.currentStreak = 0
             /\ sessionStats'.bestStreak = sessionStats.bestStreak
             /\ sessionStats'.madeShots = sessionStats.madeShots]_vars

\* made, made, missed, made: the streak restarted below the best one
C27_Witness ==
  /\ mOp = <<"updateSessionStats">>
  /\ mIn.shotMade
  /\ sessionStats.totalShots = 4
  /\ sessionStats.madeShots = 3
  /\ sessionStats.bestStreak = 2
  /\ sessionStats.currentStreak = 1

\* the successful resolutions so far
SuccessfulResolutions == {i \in 1..Len(resolved) : resolved[i].ok}

\* C28: in the application as composed every prediction that resolves
\* successfully updates the session statistics: after n successful
\* predictions totalShots = n, and madeShots counts those of them with
\* shot_made true
C28_SuccessesCounted ==
  /\ sessionStats.totalShots = Cardinality(SuccessfulResolutions)
  /\ sessionStats.madeShots =
       Cardinality({i \in SuccessfulResolutions : resolved[i].result.shot_made})

\* once the fetch has settled the selected player is null or a name of the
\* current player list, and null only with an empty list
SelectionInTheList ==
  ~appLoading =>
    /\ selectedPlayer = NullString \/ selectedPlayer \in RangeOf(players)
    /\ selectedPlayer = NullString => players = <<>>

\* C29: the initial player fetch settles with loading false, either way:
\* after a successful fetch the first player of the list is selected (null
\* only for an empty list), after a failed one the list is the fallback of
\* 8 players, 'LeBron James' is selected and the error banner is set; and
\* from then on, after every selection, the selected player is null or a
\* name of the current list
C29_FetchSettlesWithASelection ==
  /\ []SelectionInTheList
  /\ [][appLoading =>
          /\ appLoading' = FALSE
          /\ \/ /\ appError' = NullString
                /\ players' \in ServerPlayerLists
                /\ selectedPlayer' = IF players' = <<>> THEN NullString ELSE players'[1]
             \/ /\ appError' = "Failed to fetch players - using offline data"
                /\ players' = FallbackPlayers
                /\ Len(players') = 8
                /\ selectedPlayer' = "LeBron James"]_vars

\* the fetch failed and another card of the fallback list was clicked
C29_Witness ==
  /\ ~appLoading
  /\ appError = "Failed to fetch players - using offline data"
  /\ Len(players) = 8
  /\ selectedPlayer = players[2]
  /\ selectedPlayer # "LeBron James"

\* ---------------------------------------------------------------------
\* The point cloud generated for a player and placed by the heatmap
\* ---------------------------------------------------------------------

\* the props ShotPredictor renders the heatmap with, for a point cloud
ShotPredictorHeatmapProps(data) ==
  [width |-> CLICK_WIDTH, height |-> CLICK_HEIGHT,
   data |-> data,
   autoResize |-> TRUE,
   coordinateSpace |-> "court",
   courtDimensions |-> ClickDimensions,
   leagueAverage |-> Frac(45, 100),
   leagueBand |-> Frac(2, 10),
   radius |-> Num(28),
   maxOpacity |-> Frac(9, 10)]

\* a player, the results of Math.random() and the size of the container
CloudInit ==
  /\ mIn \in [player : ClickFlowPlayers, stream : RandomStreams, box : ContainerBoxes]
  /\ mOp = <<>>
  /\ mOut = <<>>
  /\ AppInit
  /\ HeatmapIdle

\* the useMemo callback of playerHeatmap
GenerateCloud ==
  /\ mOp = <<>>
  /\ mOp' = <<"generate">>
  /\ mOut' = <<playerHeatmapOf(mIn.player, mIn.stream)>>
  /\ UNCHANGED <<mIn, appVars, predictorVars, requestVars, heatVars>>

\* the centres the heatmap draws the points of the cloud at
PlaceCloud ==
  /\ mOp = <<"generate">>
  /\ mOp' = <<"place">>
  /\ LET cloud == mOut[1]
         props == ShotPredictorHeatmapProps(cloud)
     IN  mOut' = <<cloud, [i \in 1..Len(cloud) |->
                             Splat(cloud[i], props, mIn.box[1], mIn.box[2])]>>
  /\ UNCHANGED <<mIn, appVars, predictorVars, requestVars, heatVars>>

CloudNext ==
  \/ GenerateCloud
  \/ PlaceCloud

SpecCloud == CloudInit /\ [][CloudNext]_vars

\* a <= q <= b
Within(a, q, b) == Leq(a, q) /\ Leq(q, b)

\* C30: for every selected player (null and a name without a profile too)
\* and every outcome of Math.random(), the generated cloud is not empty and
\* each of its points has x in [0, 47], y in [0, 50] and weight in
\* [0.2, 0.7]; so each point is within the bounds of the 47 x 50 half court
\* and is placed inside the drawing surface
C30_CloudInsideTheHalfCourt ==
  (mOp # <<>>) =>
    LET cloud == mOut[1]
    IN  /\ Len(cloud) > 0
        /\ \A i \in 1..Len(cloud) :
             /\ Within(Num(0), cloud[i].x, Num(47))
             /\ Within(Num(0), cloud[i].y, Num(50))
             /\ Within(Frac(2, 10), cloud[i].weight, Frac(7, 10))
             /\ isWithinCourtBounds(Pos(cloud[i].x, cloud[i].y), ClickDimensions)
        /\ mOp = <<"place">> =>
             /\ Len(mOut[2]) = Len(cloud)
             /\ \A i \in 1..Len(cloud) :
                  /\ Within(Num(0), mOut[2][i].px, Num(mIn.box[1]))
                  /\ Within(Num(0), mOut[2][i].py, Num(mIn.box[2]))

\* no player selected: the first point of the default profile at the low
\* end of its cluster, x = 14 - 6, placed on a surface of 500 x 470
C30_Witness ==
  /\ mOp = <<"place">>
  /\ mIn.player = NullString
  /\ mIn.box = <<CLICK_WIDTH, CLICK_HEIGHT>>
  /\ mOut[1][1].x = Num(8)
  /\ mOut[2][1].px = Frac(4000, 47)

====
